---- MODULE Spec2Model ----
(***************************************************************************)
(* Cluster membership and partition routing of the libevent2 client        *)
(* (cl_libevent2/src/cl_cluster.c).                                        *)
(*                                                                         *)
(* The cluster manager thread runs the event loop: the cluster timer, the  *)
(* node timers and the info callbacks are its handlers and never overlap   *)
(* one another.  User threads call the router, dun(), ok() and put()       *)
(* concurrently; their steps are the atomic operations of the code (one    *)
(* cf_atomic_* call, or one node_v_lock critical section).  An info        *)
(* callback is split where it has tested `dunned`, so that a user thread   *)
(* can run between the test and the rest of the callback.                  *)
(***************************************************************************)
EXTENDS Integers, Sequences, FiniteSets, TLC

\* ------------------------------------------------------------------ bounds

\* node objects that cluster_node_create can allocate in one run
MaxNodeObjs == 2
\* in-flight info requests of one kind to one target
MaxInfos == 1
\* user threads
MaxThreads == 2
\* the dun accumulator saturates here (every value above the threshold
\* behaves alike)
MaxDunCount == 801
\* nodes of the cluster a scan runs over
MaxScanNodes == 2
\* messages a node streams to one scan
MaxStreamLen == 3
\* socket descriptors the process can have
MaxFds == 2
\* requests parked over a run
MaxParked == 2

\* ------------------------------------------------------- program constants

CL_NODE_DUN_THRESHOLD == 800
CL_NODE_PARTITION_MAX_MS == 5000
\* cn->partition_generation = 0xFFFFFFFF.  A 32-bit value is held as the
\* signed integer with the same bits, so 0xFFFFFFFF is -1.
GEN_UNKNOWN == -1
\* the null pointer
NoNode == 0
NodeIds == 1 .. MaxNodeObjs
Threads == 1 .. MaxThreads

NodeNames == {"A", "B"}
Hosts == {"10.0.0.1", "10.0.0.2"}
\* namespace names of 31 and of 32 characters
Ns31 == "ns_456789_123456789_123456789_1"
Ns32 == "ns_456789_123456789_123456789_12"
Namespaces == {"ns1", Ns31, Ns32}
PartIds == 0 .. 2

Min(a, b) == IF a < b THEN a ELSE b
Range(s) == {s[i] : i \in 1 .. Len(s)}
Contains(s, x) == \E i \in 1 .. Len(s) : s[i] = x

\* cf_vector_delete: remove the element at index i (1-based here)
cf_vector_delete(s, i) == [j \in 1 .. Len(s) - 1 |-> IF j < i THEN s[j] ELSE s[j + 1]]

\* cf_vector_append_unique
cf_vector_append_unique(s, x) == IF Contains(s, x) THEN s ELSE Append(s, x)

VARIABLES
    asc,        \* the ev2citrusleaf_cluster fields
    node,       \* node id -> the cl_cluster_node fields
    table,      \* partition table: <<ns, partition id, write>> -> node id or NoNode
    inflight,   \* info requests launched whose callback has not run: request -> count
    dns,        \* asynchronous name lookups whose callback has not run: <<host, port>> -> count
    io,         \* the cluster manager thread: idle, or inside an info callback
    thr,        \* user threads
    scan        \* one call of a scan entry point of aerospike_scan.c and its workers

vars == <<asc, node, table, inflight, dns, io, thr, scan>>

\* The data the handlers work on, as one record, so that a handler is a
\* composition of the functions it calls.
\* `full` is set when a handler needs more node objects than MaxNodeObjs.
World ==
    [asc |-> asc, node |-> node, table |-> table, inflight |-> inflight, dns |-> dns,
     full |-> FALSE]

\* ------------------------------------------------------------- wire values

\* atoi() on the strings the servers of this model send
atoi(s) ==
    CASE s = "0" -> 0
      [] s = "1" -> 1
      [] s = "2" -> 2
      [] s = "3" -> 3
      [] s = "7" -> 7
      [] s = "8" -> 8
      [] s = "3000" -> 3000
      [] s = "4096" -> 4096
      [] s = "4097" -> 4097
      [] s = "-1" -> -1
      [] OTHER -> 0

\* (uint32_t) atoi(value): the cast keeps the 32 bits of the int, and a 32-bit
\* value is held as the signed integer with the same bits
ToUint32(i) == IF i >= 0 THEN i ELSE (i + 2147483647) - 2147483647

\* A response is what str_split('\n') and str_split('\t') make of it: a
\* sequence of lines, each line the sequence of its tab-separated pieces.
\* str_split drops an empty last piece, so "node\t" has one piece only.
Line(name, value) == IF value = "" THEN <<name>> ELSE <<name, value>>
\* a value that is a ';' separated list, given as the sequence of its entries
ListLine(name, entries) == IF entries = <<>> THEN <<name>> ELSE <<name, entries>>

\* socket addresses
NoAddr == <<"", 0>>
SockAddr(host, port) == <<host, port>>
\* the port of every host of the model, as the services lines spell it
Port == atoi("3000")
Addrs == {SockAddr(h, Port) : h \in Hosts}

\* cl_lookup_immediate succeeds on a dotted quad, and fails on a name
IsDottedQuad(host) == host \in {"10.0.0.1", "10.0.0.2", "10.0.0.3"}
cl_lookup_immediate(host, port) == IF IsDottedQuad(host) THEN SockAddr(host, port) ELSE NoAddr

\* ---------------------------------------------------------- info requests

PingReq(sa, parts) == [kind |-> "ping", sa |-> sa, cn |-> NoNode, parts |-> parts]
InfoReq(cn) == [kind |-> "info", sa |-> NoAddr, cn |-> cn, parts |-> FALSE]
ReplicasReq(cn) == [kind |-> "replicas", sa |-> NoAddr, cn |-> cn, parts |-> FALSE]
Requests ==
    {PingReq(sa, p) : sa \in Addrs, p \in BOOLEAN}
        \cup {InfoReq(n) : n \in NodeIds} \cup {ReplicasReq(n) : n \in NodeIds}

\* ev2citrusleaf_info_host returned 0: the request is on the wire
InfoHostSent(W, req) == [W EXCEPT !.inflight[req] = @ + 1]

\* --------------------------------------------------------------- the node

Tags == {"O", "L", "C", "I", "R", "PR", "PW", "T"}

\* memory never allocated, and memory after cf_client_rc_free (memset 0xff).
\* conn_q holds the pooled descriptors, each with what
\* ev2citrusleaf_is_connected will report for it at the next checkout; closed
\* records the descriptors closed at checkout, for the properties.
NoNodeRec ==
    [MAGIC |-> FALSE, name |-> "", dunned |-> 0, dun_count |-> 0, sockaddr_in_v |-> <<>>,
     partition_generation |-> 0, partition_last_req_ms |-> 0,
     timer_event_registered |-> FALSE, rc |-> 0, freed |-> FALSE,
     tags |-> [t \in Tags |-> 0], conn_q |-> <<>>, closed |-> {}]

cl_cluster_node_reserve(W, cn, tag) ==
    [W EXCEPT !.node[cn].rc = @ + 1, !.node[cn].tags[tag] = @ + 1]

cl_cluster_node_release(W, cn, tag) ==
    IF W.node[cn].rc - 1 = 0
    THEN [W EXCEPT !.node[cn] =
              [NoNodeRec EXCEPT !.freed = TRUE,
                                !.tags = [W.node[cn].tags EXCEPT ![tag] = @ - 1]]]
    ELSE [W EXCEPT !.node[cn].rc = @ - 1, !.node[cn].tags[tag] = @ - 1]

\* the weights with 500 for a failed info request
dun_factor_500(type) ==
    CASE type = "DUN_USER_TIMEOUT" -> 1
      [] type = "DUN_INFO_FAIL" -> 500
      [] type \in {"DUN_REPLICAS_FETCH", "DUN_NO_SOCKADDR"} -> 1000
      [] type \in {"DUN_NETWORK_ERROR", "DUN_RESTART_FD"} -> 50
      [] OTHER -> 1

dun_factor(type) ==
    CASE type = "DUN_USER_TIMEOUT" -> 1
      [] type = "DUN_INFO_FAIL" -> 300
      [] type \in {"DUN_REPLICAS_FETCH", "DUN_NO_SOCKADDR"} -> 1000
      [] type \in {"DUN_NETWORK_ERROR", "DUN_RESTART_FD"} -> 50
      [] OTHER -> 1

\* cf_atomic_int_add(&cn->dun_count, dun_factor)
dun_count_add(count, type) == Min(count + dun_factor(type), MaxDunCount)

cl_cluster_node_dun(W, cn, type) ==
    IF ~W.node[cn].MAGIC THEN W
    ELSE LET c == dun_count_add(W.node[cn].dun_count, type)
         IN  [W EXCEPT !.node[cn].dun_count = c,
                       !.node[cn].dunned = IF c > CL_NODE_DUN_THRESHOLD THEN 1 ELSE @]

cl_cluster_node_ok(W, cn) ==
    IF ~W.node[cn].MAGIC THEN W
    ELSE [W EXCEPT !.node[cn].dun_count = 0, !.node[cn].dunned = 0]

\* The clock reading cf_getms() returns, late enough for a stamp of 0 to be
\* older than CL_NODE_PARTITION_MAX_MS; time passing is modelled by moving
\* the stored stamps back (TimePasses).
cf_getms == 2 * CL_NODE_PARTITION_MAX_MS

\* ---------------------------------------------------- the partition table

Cells == Namespaces \X PartIds \X BOOLEAN
PartitionTag(write) == IF write THEN "PW" ELSE "PR"

\* first two bytes of the digest, big-endian, modulo the partition count
cl_partition_getid(n_partitions, d) == (d[1] * 256 + d[2]) % n_partitions

cl_partition_table_set(W, cn, ns, pid, write) ==
    IF pid < 0 \/ pid >= W.asc.n_partitions \/ Len(ns) > 31 \/ <<ns, pid, write>> \notin Cells
    THEN W
    ELSE LET old == W.table[<<ns, pid, write>>]
             W1 == cl_cluster_node_reserve(W, cn, PartitionTag(write))
             W2 == [W1 EXCEPT !.table[<<ns, pid, write>>] = cn]
         IN  IF old = NoNode THEN W2 ELSE cl_cluster_node_release(W2, old, PartitionTag(write))

\* the owner of the cell, reserved for the caller; <<W, NoNode>> when there is none
cl_partition_table_get(W, ns, pid, write) ==
    LET cn == IF <<ns, pid, write>> \in Cells THEN W.table[<<ns, pid, write>>] ELSE NoNode
    IN  IF cn = NoNode THEN <<W, NoNode>> ELSE <<cl_cluster_node_reserve(W, cn, "T"), cn>>

RECURSIVE table_remove_cells(_, _, _)
table_remove_cells(W, cn, cells) ==
    IF cells = {} THEN W
    ELSE LET c == CHOOSE x \in cells : TRUE
             W1 == IF W.table[c] = cn
                   THEN cl_cluster_node_release([W EXCEPT !.table[c] = NoNode], cn,
                                                PartitionTag(c[3]))
                   ELSE W
         IN  table_remove_cells(W1, cn, cells \ {c})

\* every cell the node owns is emptied and its reference released
cl_partition_table_remove_node(W, cn) ==
    table_remove_cells(W, cn, {c \in Cells : W.table[c] = cn})

\* ------------------------------------------------------ the connection pool

Fds == 1 .. MaxFds

\* what ev2citrusleaf_is_connected reports
ProbeResults == {"CONNECTED", "CONNECTED_NOT", "CONNECTED_ERROR", "CONNECTED_BADFD"}

\* what happens to the connect of a new socket: socket() fails, fcntl or
\* every connect() fails, or a connect() succeeds or is in progress
ConnectResults == {"socket_fail", "connect_fail", "ok"}

\* close(fd) at checkout
fd_close(W, cn, fd) == [W EXCEPT !.node[cn].closed = @ \cup {fd}]

\* cl_cluster_node_fd_get: <<the world after it, the value returned>>.  conn
\* and fd_new say what a new socket would do and which descriptor it gets.
RECURSIVE cl_cluster_node_fd_get(_, _, _, _)
cl_cluster_node_fd_get(W, cn, conn, fd_new) ==
    LET q == W.node[cn].conn_q
    IN  IF q # <<>>
        THEN LET fd == Head(q).fd
                 rv2 == Head(q).st
                 W1 == [W EXCEPT !.node[cn].conn_q = Tail(q)]
             IN  IF rv2 = "CONNECTED" THEN <<W1, fd>>
                 ELSE IF rv2 = "CONNECTED_NOT" THEN <<fd_close(W1, cn, fd), -1>>
                 ELSE IF rv2 = "CONNECTED_ERROR"
                 THEN <<cl_cluster_node_dun(fd_close(W1, cn, fd), cn, "DUN_RESTART_FD"), -2>>
                 ELSE IF rv2 = "CONNECTED_BADFD"
                 THEN cl_cluster_node_fd_get(W1, cn, conn, fd_new)
                 ELSE <<W1, -2>>
        ELSE IF conn = "socket_fail" THEN <<W, -2>>
        ELSE IF conn = "ok" /\ Len(W.node[cn].sockaddr_in_v) > 0 THEN <<W, fd_new>>
        ELSE <<fd_close(W, cn, fd_new), -2>>

\* cl_cluster_node_fd_put; st is what the probe of the next checkout will
\* report for the descriptor
cl_cluster_node_fd_put(W, cn, fd, st) ==
    [W EXCEPT !.node[cn].conn_q = Append(@, [fd |-> fd, st |-> st])]

\* ------------------------------------------------------------ the cluster

NodeInList(W, cn) == Contains(W.asc.node_v, cn)

\* ev2citrusleaf_cluster_get_active_node_count: the loop counts the nodes
\* that pass its tests, the function returns the size of the list
ev2citrusleaf_cluster_get_active_node_count(W) ==
    LET count == Cardinality({i \in 1 .. Len(W.asc.node_v) :
                     LET n == W.node[W.asc.node_v[i]]
                     IN  /\ n.MAGIC
                         /\ n.name # ""
                         /\ n.dunned = 0
                         /\ Len(n.sockaddr_in_v) # 0})
        rv == Len(W.asc.node_v)
    IN  rv

\* an addition that does not look for the entry first
ev2citrusleaf_cluster_add_host_internal_dup(W, host_in, port_in) ==
    [W EXCEPT !.asc.host_str_v = Append(@, host_in),
              !.asc.host_port_v = Append(@, port_in)]

ev2citrusleaf_cluster_add_host_internal(W, host_in, port_in) ==
    IF \E i \in 1 .. Len(W.asc.host_str_v) :
           W.asc.host_str_v[i] = host_in /\ W.asc.host_port_v[i] = port_in
    THEN W
    ELSE [W EXCEPT !.asc.host_str_v = Append(@, host_in),
                   !.asc.host_port_v = Append(@, port_in)]

\* the probe sent without the look through the nodes' addresses
cluster_new_sockaddr_unseen(W, new_sin, rv) ==
    IF W.asc.shutdown THEN W
    ELSE IF rv # 0 THEN W
    ELSE LET W1 == InfoHostSent(W, PingReq(new_sin, W.asc.n_partitions = 0))
         IN  [W1 EXCEPT !.asc.infos_in_progress = @ + 1]

\* rv is what ev2citrusleaf_info_host returns if it is called
cluster_new_sockaddr(W, new_sin, rv) ==
    IF W.asc.shutdown THEN W
    ELSE IF \E j \in 1 .. Len(W.asc.node_v) :
                Contains(W.node[W.asc.node_v[j]].sockaddr_in_v, new_sin)
    THEN W
    ELSE IF rv # 0 THEN W
    ELSE LET W1 == InfoHostSent(W, PingReq(new_sin, W.asc.n_partitions = 0))
         IN  [W1 EXCEPT !.asc.infos_in_progress = @ + 1]

\* services: the entries str_split(';') gives, each the pieces str_split(':')
\* gives; rvs[i] is what ev2citrusleaf_info_host returns for entry i
RECURSIVE services_parse_from(_, _, _, _)
services_parse_from(W, services, rvs, i) ==
    IF i > Len(services) THEN W
    ELSE LET e == services[i]
             sin == IF Len(e) = 2 THEN cl_lookup_immediate(e[1], atoi(e[2])) ELSE NoAddr
             W1 == IF sin = NoAddr THEN W
                   ELSE ev2citrusleaf_cluster_add_host_internal(
                            cluster_new_sockaddr(W, sin, rvs[i]), e[1], atoi(e[2]))
         IN  services_parse_from(W1, services, rvs, i + 1)

cluster_services_parse(W, services, rvs) == services_parse_from(W, services, rvs, 1)

\* a lookup that never finds the node
cl_cluster_node_get_byname_miss(W, name) == <<W, NoNode>>

\* the first node of the list with this name, reserved ("O+"), or NoNode
cl_cluster_node_get_byname(W, name) ==
    LET hits == {i \in 1 .. Len(W.asc.node_v) : W.node[W.asc.node_v[i]].name = name}
    IN  IF hits = {} THEN <<W, NoNode>>
        ELSE LET cn == W.asc.node_v[CHOOSE i \in hits : \A j \in hits : i <= j]
             IN  <<cl_cluster_node_reserve(W, cn, "O"), cn>>

\* memory for a node: a slot that holds no node
FreeIds(W) == {n \in NodeIds : ~W.node[n].MAGIC}

\* ev_rv is what event_add returns for the node timer
cl_cluster_node_create(W, name, ev_rv) ==
    IF FreeIds(W) = {} THEN <<[W EXCEPT !.full = TRUE], NoNode>>
    ELSE LET cn == CHOOSE n \in FreeIds(W) : \A m \in FreeIds(W) : n <= m
             W1 == [W EXCEPT !.node[cn] =
                        [NoNodeRec EXCEPT !.MAGIC = TRUE, !.name = name, !.rc = 1,
                                          !.tags = [t \in Tags |-> IF t = "O" THEN 1 ELSE 0],
                                          !.partition_generation = GEN_UNKNOWN,
                                          !.partition_last_req_ms = 0]]
             W2 == cl_cluster_node_reserve(W1, cn, "L")
         IN  IF ev_rv # 0
             THEN <<cl_cluster_node_release(cl_cluster_node_release(W2, cn, "L"), cn, "O"),
                    NoNode>>
             ELSE LET W3 == [W2 EXCEPT !.node[cn].timer_event_registered = TRUE]
                      W4 == cl_cluster_node_reserve(W3, cn, "C")
                  IN  <<[W4 EXCEPT !.asc.node_v = Append(@, cn)], cn>>

\* the rest of cluster_ping_node_fn's loop over the lines, from line i on
RECURSIVE ping_node_lines(_, _, _, _, _)
ping_node_lines(W, sa_in, values, ev_rv, i) ==
    IF i > Len(values) THEN W
    ELSE LET pair == values[i]
             W1 == IF Len(pair) # 2 THEN W
                   ELSE IF pair[1] = "node"
                   THEN LET found == cl_cluster_node_get_byname(W, pair[2])
                            got == IF found[2] # NoNode THEN found
                                   ELSE cl_cluster_node_create(W, pair[2], ev_rv)
                            cn == got[2]
                        IN  IF cn = NoNode THEN got[1]
                            ELSE cl_cluster_node_release(
                                     [got[1] EXCEPT !.node[cn].sockaddr_in_v =
                                                        cf_vector_append_unique(@, sa_in)],
                                     cn, "O")
                   ELSE IF pair[1] = "partitions"
                   THEN [W EXCEPT !.asc.n_partitions = atoi(pair[2])]
                   ELSE W
         IN  ping_node_lines(W1, sa_in, values, ev_rv, i + 1)

\* ev2citrusleaf_restart on every parked request, in queue order
\* the drain that stops after the first request
restart_parked_first(W) ==
    IF W.asc.request_q = <<>> THEN W
    ELSE [W EXCEPT !.asc.request_q = Tail(@), !.asc.restarted = Append(@, Head(W.asc.request_q))]

restart_parked(W) ==
    [W EXCEPT !.asc.request_q = <<>>, !.asc.restarted = @ \o W.asc.request_q]

cluster_ping_node_fn(W, sa_in, return_value, values, ev_rv) ==
    LET W0 == [W EXCEPT !.asc.infos_in_progress = @ - 1]
    IN  IF return_value # 0 \/ W0.asc.shutdown THEN W0
        ELSE LET W1 == ping_node_lines(W0, sa_in, values, ev_rv, 1)
             IN  IF Len(W1.asc.node_v) # 0 THEN restart_parked(W1) ELSE W1

\* cl_lookup: an asynchronous lookup is under way
cl_lookup(W, host, port) == [W EXCEPT !.dns[<<host, port>>] = @ + 1]

RECURSIVE tend_hosts_from(_, _, _)
tend_hosts_from(W, rvs, i) ==
    IF i > Len(W.asc.host_str_v) THEN W
    ELSE LET host_s == W.asc.host_str_v[i]
             port == W.asc.host_port_v[i]
             sin == cl_lookup_immediate(host_s, port)
             W1 == IF sin # NoAddr THEN cluster_new_sockaddr(W, sin, rvs[i])
                   ELSE cl_lookup(W, host_s, port)
         IN  tend_hosts_from(W1, rvs, i + 1)

\* cluster_new_sockaddr in two steps, for a caller the dispatcher runs beside:
\* up to the return of ev2citrusleaf_info_host (the request is in the event
\* loop, the counter not yet incremented), and the increment
cluster_new_sockaddr_sent(W, new_sin, rv) ==
    /\ ~W.asc.shutdown
    /\ ~\E j \in 1 .. Len(W.asc.node_v) :
            Contains(W.node[W.asc.node_v[j]].sockaddr_in_v, new_sin)
    /\ rv = 0

cluster_new_sockaddr_send(W, new_sin, rv) ==
    IF cluster_new_sockaddr_sent(W, new_sin, rv)
    THEN InfoHostSent(W, PingReq(new_sin, W.asc.n_partitions = 0))
    ELSE W

cluster_new_sockaddr_incr(W) == [W EXCEPT !.asc.infos_in_progress = @ + 1]

\* cluster_tend at host i of its loop, up to the return of
\* ev2citrusleaf_info_host or of cl_lookup
cluster_tend_host(W, i, rv) ==
    LET host_s == W.asc.host_str_v[i]
        port == W.asc.host_port_v[i]
        sin == cl_lookup_immediate(host_s, port)
    IN  IF sin # NoAddr THEN cluster_new_sockaddr_send(W, sin, rv)
        ELSE cl_lookup(W, host_s, port)

cluster_tend_host_sent(W, i, rv) ==
    LET sin == cl_lookup_immediate(W.asc.host_str_v[i], W.asc.host_port_v[i])
    IN  sin # NoAddr /\ cluster_new_sockaddr_sent(W, sin, rv)

\* the seed hosts probed whatever the node list holds
cluster_tend_always(W, rvs) == tend_hosts_from(W, rvs, 1)

cluster_tend(W, rvs) == IF Len(W.asc.node_v) = 0 THEN tend_hosts_from(W, rvs, 1) ELSE W

RECURSIVE resolve_from(_, _, _, _)
resolve_from(W, sockaddr_v, rvs, i) ==
    IF i > Len(sockaddr_v) THEN W
    ELSE resolve_from(cluster_new_sockaddr(W, sockaddr_v[i], rvs[i]), sockaddr_v, rvs, i + 1)

cluster_tend_hostname_resolve(W, result, sockaddr_v, rvs) ==
    IF result = 0 /\ sockaddr_v # <<>> THEN resolve_from(W, sockaddr_v, rvs, 1) ELSE W

cluster_timer_fn(W, rvs, ev_rv) ==
    LET W1 == cluster_tend([W EXCEPT !.asc.timer_set = FALSE], rvs)
    IN  [W1 EXCEPT !.asc.timer_set = (ev_rv = 0)]

ev2citrusleaf_cluster_add_host(W, host_in, port_in, rvs) ==
    cluster_tend(ev2citrusleaf_cluster_add_host_internal(W, host_in, port_in), rvs)

ev2citrusleaf_cluster_follow(W, flag) == [W EXCEPT !.asc.follow = flag]

\* ih_rv is what ev2citrusleaf_info_host returns, ev_rv what event_add returns
node_timer_fn(W, cn, ih_rv, ev_rv) ==
    LET W0 == [W EXCEPT !.node[cn].timer_event_registered = FALSE]
    IN  IF W0.node[cn].dunned # 0
        THEN LET W1 == cl_partition_table_remove_node(W0, cn)
                 hits == {i \in 1 .. Len(W1.asc.node_v) : W1.asc.node_v[i] = cn}
                 W2 == IF hits = {} THEN W1
                       ELSE cl_cluster_node_release(
                                [W1 EXCEPT !.asc.node_v =
                                     cf_vector_delete(@, CHOOSE i \in hits :
                                                              \A j \in hits : i <= j)],
                                cn, "C")
             IN  cl_cluster_node_release(W2, cn, "L")
        ELSE LET W1 == IF Len(W0.node[cn].sockaddr_in_v) > 0
                       THEN IF ih_rv # 0
                            THEN cl_cluster_node_dun(W0, cn, "DUN_INFO_FAIL")
                            ELSE LET W0a == cl_cluster_node_reserve(
                                                InfoHostSent(W0, InfoReq(cn)), cn, "I")
                                 IN  [W0a EXCEPT !.asc.infos_in_progress = @ + 1]
                       ELSE cl_cluster_node_dun(W0, cn, "DUN_NO_SOCKADDR")
             IN  [W1 EXCEPT !.node[cn].timer_event_registered = (ev_rv = 0)]

\* partitions: the entries str_split(';') gives, each the pieces str_split(':') gives
\* cluster_partitions_process hands the entry `namespace:partid` to
\* cl_partition_table_set: it has its two pieces and passes the validation
partitions_entry_passes(W, e) ==
    /\ Len(e) = 2
    /\ ~(Len(e[1]) > 30)
    /\ ~(atoi(e[2]) > W.asc.n_partitions)

RECURSIVE partitions_process_from(_, _, _, _, _)
partitions_process_from(W, cn, partitions, write, i) ==
    IF i > Len(partitions) THEN W
    ELSE LET e == partitions[i]
             W1 == IF ~partitions_entry_passes(W, e) THEN W
                   ELSE cl_partition_table_set(W, cn, e[1], atoi(e[2]), write)
         IN  partitions_process_from(W1, cn, partitions, write, i + 1)

\* cluster_partitions_process stopping after the first entry of the list
cluster_partitions_process_first(W, cn, partitions, write) ==
    partitions_process_from(W, cn, SubSeq(partitions, 1, 1), write, 1)

\* the entries of a replicas-read or replicas-write value, each handed to
\* cl_partition_table_set when it passes the validation
cluster_partitions_process(W, cn, partitions, write) ==
    partitions_process_from(W, cn, partitions, write, 1)

RECURSIVE replicas_lines(_, _, _, _)
replicas_lines(W, cn, response, j) ==
    IF j > Len(response) THEN W
    ELSE LET pair == response[j]
             W1 == IF Len(pair) # 2 THEN W
                   ELSE IF pair[1] = "replicas-read"
                   THEN cluster_partitions_process(W, cn, pair[2], FALSE)
                   ELSE IF pair[1] = "replicas-write"
                   THEN cluster_partitions_process(W, cn, pair[2], TRUE)
                   ELSE IF pair[1] = "partition-generation"
                   THEN [W EXCEPT !.node[cn].partition_generation = ToUint32(atoi(pair[2]))]
                   ELSE W
         IN  replicas_lines(W1, cn, response, j + 1)

\* node_replicas_fn up to its test of dunned and shutdown: TRUE when it goes on
node_replicas_fn_test(W, cn) == ~(W.node[cn].dunned # 0 \/ W.asc.shutdown)

\* node_replicas_fn after the test, leaving out the lists of a response
\* whose partition-generation is the one the node already has
node_replicas_fn_body_skip(W, cn, return_value, response) ==
    IF return_value # 0 THEN cl_cluster_node_dun(W, cn, "DUN_REPLICAS_FETCH")
    ELSE LET W1 == cl_partition_table_remove_node(cl_cluster_node_ok(W, cn), cn)
             W2 == [W1 EXCEPT !.node[cn].partition_last_req_ms = cf_getms]
         IN  IF \E j \in 1 .. Len(response) :
                    /\ Len(response[j]) = 2
                    /\ response[j][1] = "partition-generation"
                    /\ ToUint32(atoi(response[j][2])) = W.node[cn].partition_generation
             THEN W2
             ELSE replicas_lines(W2, cn, response, 1)

\* node_replicas_fn after the test, when the test let it go on
node_replicas_fn_body(W, cn, return_value, response) ==
    IF return_value # 0 THEN cl_cluster_node_dun(W, cn, "DUN_REPLICAS_FETCH")
    ELSE LET W1 == cl_partition_table_remove_node(cl_cluster_node_ok(W, cn), cn)
             W2 == [W1 EXCEPT !.node[cn].partition_last_req_ms = cf_getms]
         IN  replicas_lines(W2, cn, response, 1)

\* the replicas request made whatever generation the node reports
infocb_partition_generation_any(W, cn, value, ih_rv) ==
    IF ~(W.node[cn].partition_last_req_ms + CL_NODE_PARTITION_MAX_MS < cf_getms) THEN W
    ELSE LET W1 == [W EXCEPT !.node[cn].partition_last_req_ms = cf_getms]
         IN  IF Len(W1.node[cn].sockaddr_in_v) = 0 THEN W1
             ELSE LET W2 == cl_cluster_node_reserve(W1, cn, "R")
                  IN  IF ih_rv # 0 THEN cl_cluster_node_release(W2, cn, "R")
                      ELSE [InfoHostSent(W2, ReplicasReq(cn)) EXCEPT
                                !.asc.infos_in_progress = @ + 1]

\* the replicas request node_timer_infocb_fn makes; ih_rv is what
\* ev2citrusleaf_info_host returns
infocb_partition_generation(W, cn, value, ih_rv) ==
    IF W.node[cn].partition_generation = ToUint32(atoi(value)) THEN W
    ELSE IF ~(W.node[cn].partition_last_req_ms + CL_NODE_PARTITION_MAX_MS < cf_getms) THEN W
    ELSE LET W1 == [W EXCEPT !.node[cn].partition_last_req_ms = cf_getms]
         IN  IF Len(W1.node[cn].sockaddr_in_v) = 0 THEN W1
             ELSE LET W2 == cl_cluster_node_reserve(W1, cn, "R")
                  IN  IF ih_rv # 0 THEN cl_cluster_node_release(W2, cn, "R")
                      ELSE [InfoHostSent(W2, ReplicasReq(cn)) EXCEPT
                                !.asc.infos_in_progress = @ + 1]

\* rvs[1] is what ev2citrusleaf_info_host returns for the replicas request,
\* rvs[1 + k] what it returns for the k-th services entry
RECURSIVE infocb_lines(_, _, _, _, _)
infocb_lines(W, cn, response, rvs, i) ==
    IF i > Len(response) THEN W
    ELSE LET pair == response[i]
         IN  IF Len(pair) = 2 /\ pair[1] = "node" /\ pair[2] # W.node[cn].name
             THEN cl_cluster_node_dun(W, cn, "DUN_BAD_NAME")
             ELSE LET W1 == IF Len(pair) # 2 THEN W
                            ELSE IF pair[1] = "partition-generation"
                            THEN infocb_partition_generation(W, cn, pair[2], rvs[1])
                            ELSE IF pair[1] = "services"
                            THEN cluster_services_parse(W, pair[2],
                                     [k \in 1 .. Len(pair[2]) |-> rvs[1 + k]])
                            ELSE W
                  IN  infocb_lines(W1, cn, response, rvs, i + 1)

\* node_timer_infocb_fn up to its test of dunned and shutdown: TRUE when it goes on
node_timer_infocb_fn_test(W, cn) == ~(W.node[cn].dunned # 0 \/ W.asc.shutdown)

\* node_timer_infocb_fn after the test, when the test let it go on
node_timer_infocb_fn_body(W, cn, return_value, response, rvs) ==
    IF return_value # 0 THEN cl_cluster_node_dun(W, cn, "DUN_INFO_FAIL")
    ELSE infocb_lines(cl_cluster_node_ok(W, cn), cn, response, rvs, 1)

\* ------------------------------------------------------------ user threads

\* ev2citrusleaf_cluster_destroy: the delay it sleeps before it stops the
\* dispatcher
destroy_delay_ms(delay_ms) ==
    IF delay_ms < 0 \/ delay_ms > 60 * 1000 THEN 100 ELSE delay_ms

\* ev2citrusleaf_cluster_destroy from the end of its usleep to its loop: the
\* dispatcher is stopped and the cluster timer deleted (timer_set stands for
\* the pending timer event)
destroy_stop(W) == [W EXCEPT !.asc.timer_set = FALSE]

\* the loop over event_base_loop goes on
destroy_loop_test(W, loop_result) ==
    W.asc.infos_in_progress # 0 /\ loop_result = 0

\* the "C" and "L" references of the nodes of the list are released
RECURSIVE destroy_nodes_from(_, _)
destroy_nodes_from(W, i) ==
    IF i > Len(W.asc.node_v) THEN W
    ELSE LET cn == W.asc.node_v[i]
         IN  destroy_nodes_from(
                 cl_cluster_node_release(cl_cluster_node_release(W, cn, "C"), cn, "L"),
                 i + 1)

\* ev2citrusleaf_cluster_destroy after its loop: the nodes, the queue, the
\* vectors, the partition table and the resolver
destroy_finish(W) ==
    LET W1 == destroy_nodes_from(W, 1)
    IN  [W1 EXCEPT !.asc.request_q = <<>>,
                   !.asc.host_str_v = <<>>,
                   !.asc.host_port_v = <<>>,
                   !.asc.node_v = <<>>,
                   !.table = [c \in Cells |-> NoNode],
                   !.dns = [hp \in DOMAIN W.dns |-> 0]]

\* A thread is idle, inside cl_cluster_node_get ("check", "random"), back from
\* it ("ret"), holding the node it got ("has"), or inside dun() or ok() on it.
\* owner, sawDunned, stable and emptyAll record what one call of the router
\* saw, for the properties of the router; they are not program state.
\* A thread inside ev2citrusleaf_cluster_destroy is in its usleep
\* ("destroy_sleep") or in its loop over event_base_loop ("destroy_loop"), and
\* is "destroyed" when the call has returned; delay_ms is the variable of that
\* name, and delay_arg records the value the caller passed.  A thread back
\* from cl_cluster_node_fd_get ("fd") has its return value in fd.
IdleThread ==
    [pc |-> "idle", cn |-> NoNode, i |-> 0, owner |-> NoNode, sawDunned |-> FALSE,
     stable |-> {}, emptyAll |-> FALSE, delay_ms |-> 0, delay_arg |-> 0, fd |-> 0]

\* the nodes of the list that are not dunned
LiveNodes(W) == {n \in Range(W.asc.node_v) : W.node[n].dunned = 0}

InRouter(t) == t.pc \in {"check", "random"}

IoIdle == [h |-> "idle", cn |-> NoNode, rv |-> 0, response |-> <<>>]

\* no thread has returned from ev2citrusleaf_cluster_destroy: the application
\* calls nothing on a cluster it has destroyed
ClusterLive == \A t \in Threads : thr[t].pc # "destroyed"

\* the dispatcher has exited and no handler will run
IoStopped == [IoIdle EXCEPT !.h = "stopped"]

\* the caps on what is in flight
WithinBounds(W) ==
    /\ ~W.full
    /\ \A r \in Requests : W.inflight[r] <= MaxInfos
    /\ \A hp \in DOMAIN W.dns : W.dns[hp] <= MaxInfos

\* the step's result becomes the next state
Commit(W, io2, thr2) ==
    /\ WithinBounds(W)
    /\ asc' = W.asc
    /\ node' = W.node
    /\ table' = W.table
    /\ inflight' = W.inflight
    /\ dns' = W.dns
    /\ io' = io2
    /\ scan' = scan
    /\ thr' = [t \in DOMAIN thr2 |->
                 IF InRouter(thr2[t])
                 THEN [thr2[t] EXCEPT !.stable = @ \cap LiveNodes(W),
                                      !.emptyAll = @ /\ W.asc.node_v = <<>>]
                 ELSE thr2[t]]

\* cl_cluster_node_get up to the call of cl_partition_table_get
RouterLookup(t, ns, d, write) ==
    /\ thr[t].pc = "idle"
    /\ LET got == IF asc.n_partitions # 0
                  THEN cl_partition_table_get(World, ns,
                           cl_partition_getid(asc.n_partitions, d), write)
                  ELSE <<World, NoNode>>
       IN  Commit(got[1], io,
                  [thr EXCEPT ![t] = [IdleThread EXCEPT
                       !.pc = IF got[2] # NoNode THEN "check" ELSE "random",
                       !.cn = got[2], !.owner = got[2],
                       !.stable = LiveNodes(World),
                       !.emptyAll = (asc.node_v = <<>>)]])

\* cl_cluster_node_get: the test of the dunned flag of the table's node
RouterCheck(t) ==
    /\ thr[t].pc = "check"
    /\ IF node[thr[t].cn].dunned # 0
       THEN Commit(cl_cluster_node_release(World, thr[t].cn, "T"), io,
                   [thr EXCEPT ![t].pc = "random", ![t].cn = NoNode, ![t].sawDunned = TRUE])
       ELSE Commit(World, io, [thr EXCEPT ![t].pc = "ret"])

\* the critical section of one iteration of cl_cluster_node_get_random's
\* loop: <<the world after it, the node it reserved or NoNode>>
cl_cluster_node_get_random_step(W) ==
    LET node_v_sz == Len(W.asc.node_v)
        incr == W.asc.last_node + 1
        node_i == IF incr >= node_v_sz THEN 0 ELSE incr
        cn == W.asc.node_v[node_i + 1]
        W1 == [W EXCEPT !.asc.last_node = node_i]
    IN  IF W.node[cn].dunned # 0 THEN <<W1, NoNode>>
        ELSE <<cl_cluster_node_reserve(W1, cn, "T"), cn>>

\* one iteration of the loop of cl_cluster_node_get_random
RouterRandom(t) ==
    /\ thr[t].pc = "random"
    /\ IF Len(asc.node_v) = 0
       THEN Commit(World, io, [thr EXCEPT ![t].pc = "ret", ![t].cn = NoNode])
       ELSE LET got == cl_cluster_node_get_random_step(World)
                i == thr[t].i + 1
            IN  Commit(got[1], io,
                       [thr EXCEPT ![t].cn = got[2], ![t].i = i,
                                   ![t].pc = IF got[2] = NoNode /\ i < Len(asc.node_v)
                                             THEN "random" ELSE "ret"])

\* cl_cluster_node_get returns: the caller holds the node, or parks its request
RouterReturn(t) ==
    /\ thr[t].pc = "ret"
    /\ Commit(World, io,
              [thr EXCEPT ![t] = IF thr[t].cn = NoNode THEN IdleThread
                                 ELSE [IdleThread EXCEPT !.pc = "has", !.cn = thr[t].cn]])

\* cl_cluster_node_get returned no node: the caller parks its request on the
\* request queue of the cluster; the requests are numbered in the order of
\* their parking
RouterPark(t) ==
    /\ thr[t].pc = "ret"
    /\ thr[t].cn = NoNode
    /\ Len(asc.request_q) + Len(asc.restarted) < MaxParked
    /\ Commit([World EXCEPT !.asc.request_q =
                   Append(@, Len(asc.request_q) + Len(asc.restarted) + 1)],
              io, [thr EXCEPT ![t] = IdleThread])

\* cl_cluster_node_dun by a user thread: cf_atomic_int_add
UserDunAdd(t, type) ==
    /\ thr[t].pc = "has"
    /\ node[thr[t].cn].MAGIC
    /\ Commit([World EXCEPT !.node[thr[t].cn].dun_count = dun_count_add(@, type)], io,
              [thr EXCEPT ![t].pc = "dun_test"])

\* the comparison with the threshold, off by one
UserDunTest_ge(t) ==
    /\ thr[t].pc = "dun_test"
    /\ Commit(World, io,
              [thr EXCEPT ![t].pc = IF node[thr[t].cn].dun_count >= CL_NODE_DUN_THRESHOLD
                                    THEN "dun_set" ELSE "has"])

\* cl_cluster_node_dun by a user thread: the comparison with the threshold
UserDunTest(t) ==
    /\ thr[t].pc = "dun_test"
    /\ Commit(World, io,
              [thr EXCEPT ![t].pc = IF node[thr[t].cn].dun_count > CL_NODE_DUN_THRESHOLD
                                    THEN "dun_set" ELSE "has"])

\* cl_cluster_node_dun by a user thread: cf_atomic_int_set(&cn->dunned, 1)
UserDunSet(t) ==
    /\ thr[t].pc = "dun_set"
    /\ Commit([World EXCEPT !.node[thr[t].cn].dunned = 1], io, [thr EXCEPT ![t].pc = "has"])

\* cl_cluster_node_ok by a user thread: cf_atomic_int_set(&cn->dun_count, 0)
UserOkCount(t) ==
    /\ thr[t].pc = "has"
    /\ node[thr[t].cn].MAGIC
    /\ Commit([World EXCEPT !.node[thr[t].cn].dun_count = 0], io,
              [thr EXCEPT ![t].pc = "ok_set"])

\* cl_cluster_node_ok by a user thread: cf_atomic_int_set(&cn->dunned, 0)
UserOkSet(t) ==
    /\ thr[t].pc = "ok_set"
    /\ Commit([World EXCEPT !.node[thr[t].cn].dunned = 0], io, [thr EXCEPT ![t].pc = "has"])

\* cl_cluster_node_put
UserPut(t) ==
    /\ thr[t].pc = "has"
    /\ Commit(cl_cluster_node_release(World, thr[t].cn, "T"), io,
              [thr EXCEPT ![t] = IdleThread])

\* the descriptors a new socket can get: not pooled, not held, not closed
\* before (a reused number would say nothing about the old descriptor)
FreeFds ==
    {fd \in Fds :
        /\ \A n \in NodeIds : fd \notin node[n].closed
        /\ \A n \in NodeIds : \A i \in 1 .. Len(node[n].conn_q) : node[n].conn_q[i].fd # fd
        /\ \A t \in Threads : thr[t].fd # fd}

\* cl_cluster_node_fd_get by a thread that holds a node; socket() fails when
\* the process has no descriptor left
UserFdGet(t, Conns) ==
    /\ thr[t].pc = "has"
    /\ node[thr[t].cn].MAGIC
    /\ \E conn \in Conns, fd_new \in FreeFds \cup {0} :
           LET got == cl_cluster_node_fd_get(World, thr[t].cn, conn, fd_new)
           IN  /\ fd_new = 0 <=> FreeFds = {}
               /\ fd_new = 0 => conn = "socket_fail"
               /\ Commit(got[1], io, [thr EXCEPT ![t].pc = "fd", ![t].fd = got[2]])

\* the thread is done with the descriptor it got: cl_cluster_node_fd_put
UserFdPut(t, Probes) ==
    /\ thr[t].pc = "fd"
    /\ thr[t].fd > 0
    /\ \E st \in Probes :
           Commit(cl_cluster_node_fd_put(World, thr[t].cn, thr[t].fd, st), io,
                  [thr EXCEPT ![t].pc = "has", ![t].fd = 0])

\* cl_cluster_node_fd_get gave the thread no descriptor
UserFdNone(t) ==
    /\ thr[t].pc = "fd"
    /\ thr[t].fd < 0
    /\ Commit(World, io, [thr EXCEPT ![t].pc = "has", ![t].fd = 0])

\* ------------------------------------------------ the cluster manager thread

\* what the library calls of a handler return: ev2citrusleaf_info_host (one
\* result per call the handler can make) and event_add
InfoHostRvs == {0, -1}
EventAddRvs == {0, -1}

\* the responses of the servers
PingResponse(name, partitions) == <<Line("node", name), Line("partitions", partitions)>>
InfoResponse(name, gen, services) ==
    <<Line("node", name), Line("partition-generation", gen), ListLine("services", services)>>
ReplicasResponse(rd, wr, gen) ==
    <<ListLine("replicas-read", rd), ListLine("replicas-write", wr),
      Line("partition-generation", gen)>>

\* the results of the k calls of ev2citrusleaf_info_host a handler can make
CallRvs(IhRvs, k) == [1 .. k -> IhRvs]

\* the cluster timer fires
ClusterTimer(IhRvs, EvRvs) ==
    /\ io.h = "idle"
    /\ asc.timer_set
    /\ \E rvs \in CallRvs(IhRvs, Len(asc.host_str_v)), ev_rv \in EvRvs :
           Commit(cluster_timer_fn(World, rvs, ev_rv), io, thr)

\* the timer of node cn fires
NodeTimer(cn, IhRvs, EvRvs) ==
    /\ io.h = "idle"
    /\ node[cn].MAGIC
    /\ node[cn].timer_event_registered
    /\ \E ih_rv \in IhRvs, ev_rv \in EvRvs :
           Commit(node_timer_fn(World, cn, ih_rv, ev_rv), io, thr)

\* the answer to a probe of a new address arrives (or the probe fails)
PingCallback(Rvs, Names, Partitions, EvRvs) ==
    /\ io.h = "idle"
    /\ \E sa \in Addrs, p \in BOOLEAN :
         /\ inflight[PingReq(sa, p)] > 0
         /\ \E rv \in Rvs, name \in Names, ev_rv \in EvRvs,
                partitions \in (IF p THEN Partitions ELSE {""}) :
                Commit(cluster_ping_node_fn(
                           [World EXCEPT !.inflight[PingReq(sa, p)] = @ - 1],
                           sa, rv, PingResponse(name, partitions), ev_rv),
                       io, thr)

\* the answer to the info request of node cn arrives (or the request fails):
\* node_timer_infocb_fn runs up to its test of dunned and shutdown
InfoCbEnter(cn, Rvs, Names, Gens, Services) ==
    /\ io.h = "idle"
    /\ inflight[InfoReq(cn)] > 0
    /\ LET W == [World EXCEPT !.inflight[InfoReq(cn)] = @ - 1,
                              !.asc.infos_in_progress = @ - 1]
       IN  IF node_timer_infocb_fn_test(W, cn)
           THEN \E rv \in Rvs, name \in Names, gen \in Gens, services \in Services :
                    Commit(W, [h |-> "infocb", cn |-> cn, rv |-> rv,
                               response |-> IF rv = 0 THEN InfoResponse(name, gen, services)
                                            ELSE <<>>],
                           thr)
           ELSE Commit(cl_cluster_node_release(W, cn, "I"), IoIdle, thr)

\* the calls of ev2citrusleaf_info_host the callback can make on this response
InfoCbCalls(response) ==
    1 + (IF Len(response) = 3 /\ Len(response[3]) = 2 THEN Len(response[3][2]) ELSE 0)

\* node_timer_infocb_fn from the test on
InfoCbBody(IhRvs) ==
    /\ io.h = "infocb"
    /\ \E rvs \in CallRvs(IhRvs, InfoCbCalls(io.response)) :
           Commit(cl_cluster_node_release(
                      node_timer_infocb_fn_body(World, io.cn, io.rv, io.response, rvs),
                      io.cn, "I"),
                  IoIdle, thr)

\* the answer to the replicas request of node cn arrives (or the request
\* fails): node_replicas_fn runs up to its test of dunned and shutdown
ReplicasEnter(cn, Rvs, Reads, Writes, Gens) ==
    /\ io.h = "idle"
    /\ inflight[ReplicasReq(cn)] > 0
    /\ LET W == [World EXCEPT !.inflight[ReplicasReq(cn)] = @ - 1,
                              !.asc.infos_in_progress = @ - 1]
       IN  IF node_replicas_fn_test(W, cn)
           THEN \E rv \in Rvs, rd \in Reads, wr \in Writes, gen \in Gens :
                    Commit(W, [h |-> "replicas", cn |-> cn, rv |-> rv,
                               response |-> IF rv = 0 THEN ReplicasResponse(rd, wr, gen)
                                            ELSE <<>>],
                           thr)
           ELSE Commit(cl_cluster_node_release(W, cn, "R"), IoIdle, thr)

\* node_replicas_fn from the test on
ReplicasBody ==
    /\ io.h = "replicas"
    /\ Commit(cl_cluster_node_release(
                  node_replicas_fn_body(World, io.cn, io.rv, io.response), io.cn, "R"),
              IoIdle, thr)

\* an asynchronous lookup completes
DnsCallback(Results, IhRvs) ==
    /\ io.h = "idle"
    /\ \E hp \in DOMAIN dns :
         /\ dns[hp] > 0
         /\ \E result \in Results, rvs \in CallRvs(IhRvs, Cardinality(Hosts)) :
                Commit(cluster_tend_hostname_resolve(
                           [World EXCEPT !.dns[hp] = @ - 1], result.rv, result.sockaddr_v, rvs),
                       io, thr)

\* ev2citrusleaf_cluster_add_host, called by the application
AddHost(HostSet, IhRvs) ==
    \E host \in HostSet, rvs \in CallRvs(IhRvs, Len(asc.host_str_v) + 1) :
        /\ ClusterLive
        /\ ~Contains(asc.host_str_v, host)
        /\ Commit(ev2citrusleaf_cluster_add_host(World, host, Port, rvs), io, thr)

\* ev2citrusleaf_cluster_add_host, called again with a host of the list
AddHostAgain(HostSet, IhRvs) ==
    \E host \in HostSet, rvs \in CallRvs(IhRvs, Len(asc.host_str_v) + 1) :
        /\ ClusterLive
        /\ Contains(asc.host_str_v, host)
        /\ Commit(ev2citrusleaf_cluster_add_host(World, host, Port, rvs), io, thr)

\* where a thread inside cluster_tend goes after host i
TendNext(W, i) ==
    IF i + 1 > Len(W.asc.host_str_v) THEN IdleThread
    ELSE [IdleThread EXCEPT !.pc = "tend", !.i = i + 1]

\* ev2citrusleaf_cluster_add_host on an application thread, step by step
\* beside the dispatcher: the host is added and cluster_tend reads the size
\* of the node list
UserAddHost(t, HostSet) ==
    /\ thr[t].pc = "idle"
    /\ ClusterLive
    /\ \E host \in HostSet :
         LET W == ev2citrusleaf_cluster_add_host_internal(World, host, Port)
         IN  Commit(W, io, [thr EXCEPT ![t] = IF Len(W.asc.node_v) = 0
                                                THEN TendNext(W, 0) ELSE IdleThread])

\* cluster_tend on the thread reaches its next host: the probe is handed to
\* the event loop, or not sent, or the lookup started
UserTendHost(t, IhRvs) ==
    /\ thr[t].pc = "tend"
    /\ \E rv \in IhRvs :
         LET i == thr[t].i
             W == cluster_tend_host(World, i, rv)
         IN  Commit(W, io, [thr EXCEPT ![t] = IF cluster_tend_host_sent(World, i, rv)
                                                THEN [@ EXCEPT !.pc = "tend_incr"]
                                                ELSE TendNext(W, i)])

\* cluster_new_sockaddr on the thread increments the counter
UserTendIncr(t) ==
    /\ thr[t].pc = "tend_incr"
    /\ LET W == cluster_new_sockaddr_incr(World)
       IN  Commit(W, io, [thr EXCEPT ![t] = TendNext(W, thr[t].i)])

\* ev2citrusleaf_cluster_follow, called by the application
Follow(flag) ==
    /\ asc.follow # flag
    /\ Commit(ev2citrusleaf_cluster_follow(World, flag), io, thr)

\* ev2citrusleaf_cluster_destroy is called and goes to sleep
DestroyBegin(t, Delays) ==
    /\ thr[t].pc = "idle"
    /\ \A u \in Threads : thr[u].pc \notin {"destroy_sleep", "destroy_loop", "destroyed"}
    /\ \E delay_ms \in Delays :
           Commit(World, io,
                  [thr EXCEPT ![t] = [IdleThread EXCEPT !.pc = "destroy_sleep",
                                                        !.delay_ms = destroy_delay_ms(delay_ms),
                                                        !.delay_arg = delay_ms]])

\* the sleep ends: event_base_loopbreak and pthread_join return once the
\* handler in progress has, and the loop over event_base_loop is entered or
\* skipped
DestroySleepEnds(t) ==
    /\ thr[t].pc = "destroy_sleep"
    /\ io.h = "idle"
    /\ LET W == destroy_stop(World)
       IN  IF destroy_loop_test(W, 0)
           THEN Commit(W, io, [thr EXCEPT ![t].pc = "destroy_loop"])
           ELSE Commit(destroy_finish(W), IoStopped, [thr EXCEPT ![t].pc = "destroyed"])

\* event_base_loop has run handlers and returns, and the loop ends
DestroyLoopEnds(t, LoopResults) ==
    /\ thr[t].pc = "destroy_loop"
    /\ io.h = "idle"
    /\ \E loop_result \in LoopResults :
         /\ ~destroy_loop_test(World, loop_result)
         /\ Commit(destroy_finish(World), IoStopped, [thr EXCEPT ![t].pc = "destroyed"])

\* Time passes: a stamp taken now becomes CL_NODE_PARTITION_MAX_MS old, and
\* one that old becomes older.
TimePasses ==
    /\ \E n \in NodeIds : node[n].MAGIC /\ node[n].partition_last_req_ms # 0
    /\ Commit([World EXCEPT !.node = [n \in NodeIds |->
                   IF ~node[n].MAGIC THEN node[n]
                   ELSE [node[n] EXCEPT !.partition_last_req_ms =
                            IF @ = cf_getms THEN cf_getms - CL_NODE_PARTITION_MAX_MS
                            ELSE 0]]],
              io, thr)

\* ------------------------------------------------------------------ scans

\* as_status values the scan code uses
AEROSPIKE_OK == "AEROSPIKE_OK"
AEROSPIKE_ERR_CLIENT_ABORT == "AEROSPIKE_ERR_CLIENT_ABORT"
AEROSPIKE_ERR_SCAN_ABORTED == "AEROSPIKE_ERR_SCAN_ABORTED"
AEROSPIKE_ERR_SERVER == "AEROSPIKE_ERR_SERVER"
AEROSPIKE_ERR_CLIENT == "AEROSPIKE_ERR_CLIENT"
AEROSPIKE_ERR_PARAM == "AEROSPIKE_ERR_PARAM"
AEROSPIKE_ERR_TIMEOUT == "AEROSPIKE_ERR_TIMEOUT"

ScanNodes == 1 .. MaxScanNodes

\* What a node streams to a scan, message by message: a record ("rec"), a
\* message with the bit AS_MSG_INFO3_LAST ("last"), a message whose
\* result_code is AEROSPIKE_ERR_RECORD_NOT_FOUND ("notfound") or another
\* code ("err"), or a failure of the socket read ("fail").  A read past the
\* end of the stream fails too (the deadline passes).  Nothing is read after
\* a message that is not a record, so the streams have at most one record
\* there.
StreamItems == {"rec", "last", "notfound", "err", "fail"}
Streams ==
    {st \in UNION {[1 .. n -> StreamItems] : n \in 0 .. MaxStreamLen} :
        \A k \in 1 .. Len(st) :
            /\ st[k] # "rec" => k >= Len(st) - 1
            /\ k > 1 /\ st[k - 1] # "rec" => st[k] = "rec"}

\* a scan worker: as_scan_command_execute on one node.  pc is "none" (not
\* started), "read" (in as_scan_parse, before the next message), "check"
\* (after a record's callback, before the load of error_mutex), "fas" (back
\* from as_command_execute), "push" (before cf_queue_push) or "done"; err is
\* the as_error local to as_scan_command_execute.
IdleWorker ==
    [pc |-> "none", pos |-> 1, status |-> AEROSPIKE_OK, err |-> AEROSPIKE_OK,
     stream |-> <<>>]

\* The state of a scan call.  pc is "idle" (no call yet), "queue" (handing
\* tasks to the thread pool), "wait" (popping the completion queue), "serial"
\* (running as_scan_command_execute itself), "release" (after the node
\* scans), "eos" (before the final callback) or "done" (returned; status is
\* the value returned).  delivered, eos, aborted, late, after_flag, winners
\* and writers record what the callback, error_mutex and the err slot saw,
\* for the properties; they are not program state.  Thread 0 is the caller
\* of the scan, thread n the worker of node n.
IdleScan ==
    [pc |-> "idle", entry |-> "foreach", concurrent |-> FALSE, callback |-> FALSE,
     n_nodes |-> 0, nodes_rc |-> 0, node_rc |-> [n \in ScanNodes |-> 0], cmd |-> FALSE,
     error_mutex |-> 0, err |-> AEROSPIKE_OK, status |-> AEROSPIKE_OK,
     i |-> 0, n_wait_nodes |-> 0, popped |-> 0, complete_q |-> <<>>,
     worker |-> [n \in ScanNodes |-> IdleWorker],
     delivered |-> [n \in ScanNodes |-> [k \in 1 .. MaxStreamLen |-> 0]],
     eos |-> 0, aborted |-> FALSE, late |-> 0,
     after_flag |-> [n \in ScanNodes |-> 0], winners |-> {}, writers |-> {}]

\* as_scan_parse_record: ret is what the callback returns if it is called
as_scan_parse_record(callback, ret) ==
    LET rv == IF callback THEN ret ELSE TRUE
    IN  IF rv THEN AEROSPIKE_OK ELSE AEROSPIKE_ERR_CLIENT_ABORT

\* the message worker n reads next
scan_item(S, n) ==
    LET w == S.worker[n]
    IN  IF w.pos > Len(w.stream) THEN "fail" ELSE w.stream[w.pos]

\* worker n leaves as_command_execute with this status and this local error
scan_leave(S, n, status, err) ==
    [S EXCEPT !.worker[n].status = status, !.worker[n].err = err,
              !.worker[n].pc = "fas"]

\* as_scan_parse and as_scan_parse_records, one message: a read failure and
\* a result code end the node's scan with an error, NOT_FOUND and LAST end
\* it with AEROSPIKE_OK, a record goes to the callback
as_scan_parse_records(S, n, ret) ==
    LET item == scan_item(S, n)
    IN  IF item = "fail" THEN scan_leave(S, n, AEROSPIKE_ERR_TIMEOUT, AEROSPIKE_ERR_TIMEOUT)
        ELSE IF item = "err"
        THEN scan_leave(S, n, AEROSPIKE_ERR_SERVER, AEROSPIKE_ERR_SERVER)
        ELSE IF item \in {"notfound", "last"}
        THEN scan_leave(S, n, AEROSPIKE_OK, S.worker[n].err)
        ELSE LET status == as_scan_parse_record(S.callback, ret)
                 S1 == IF ~S.callback THEN S
                       ELSE [S EXCEPT !.delivered[n][S.worker[n].pos] = @ + 1,
                                      !.late = IF S.aborted THEN @ + 1 ELSE @,
                                      !.after_flag[n] = IF S.error_mutex # 0 THEN @ + 1 ELSE @,
                                      !.aborted = @ \/ ~ret]
             IN  IF status # AEROSPIKE_OK THEN scan_leave(S1, n, status, S.worker[n].err)
                 ELSE [S1 EXCEPT !.worker[n].pc = "check"]

\* a worker that does not look at error_mutex after a record
scan_check_mutex_never(S, n) ==
    [S EXCEPT !.worker[n].pos = @ + 1, !.worker[n].pc = "read"]

\* a check of error_mutex that goes back to the record it has just passed
\* to the callback
scan_check_mutex_again(S, n) ==
    IF S.error_mutex # 0
    THEN scan_leave(S, n, AEROSPIKE_ERR_SCAN_ABORTED, AEROSPIKE_ERR_SCAN_ABORTED)
    ELSE [S EXCEPT !.worker[n].pc = "read"]

\* as_scan_parse_records after a record: the load of error_mutex
scan_check_mutex(S, n) ==
    IF S.error_mutex # 0
    THEN scan_leave(S, n, AEROSPIKE_ERR_SCAN_ABORTED, AEROSPIKE_ERR_SCAN_ABORTED)
    ELSE [S EXCEPT !.worker[n].pos = @ + 1, !.worker[n].pc = "read"]

\* an as_scan_command_execute that copies its error whatever the swap of
\* error_mutex returned
as_scan_command_execute_always(S, n) ==
    LET w == S.worker[n]
    IN  IF w.status = AEROSPIKE_OK THEN S
        ELSE LET S1 == [S EXCEPT !.error_mutex = 1,
                                 !.winners = IF S.error_mutex = 0 THEN @ \cup {n} ELSE @]
             IN  IF w.status # AEROSPIKE_ERR_CLIENT_ABORT
                 THEN [S1 EXCEPT !.err = w.err, !.writers = @ \cup {n}]
                 ELSE S1

\* as_scan_command_execute after as_command_execute: the main error is set
\* by the first that swaps error_mutex, unless it is a user abort
as_scan_command_execute(S, n) ==
    LET w == S.worker[n]
    IN  IF w.status = AEROSPIKE_OK THEN S
        ELSE LET S1 == [S EXCEPT !.error_mutex = 1,
                                 !.winners = IF S.error_mutex = 0 THEN @ \cup {n} ELSE @]
             IN  IF S.error_mutex = 0 /\ w.status # AEROSPIKE_ERR_CLIENT_ABORT
                 THEN [S1 EXCEPT !.err = w.err, !.writers = @ \cup {n}]
                 ELSE S1

\* a serial loop that goes on to the next node whatever the status
scan_serial_next_all(S) ==
    IF S.i < S.n_nodes
    THEN [S EXCEPT !.worker[S.i + 1].pc = "read"]
    ELSE [S EXCEPT !.pc = "release"]

\* as_scan_generic, the serial loop: the next node is scanned while the
\* status is AEROSPIKE_OK
scan_serial_next(S) ==
    IF S.i < S.n_nodes /\ S.status = AEROSPIKE_OK
    THEN [S EXCEPT !.worker[S.i + 1].pc = "read"]
    ELSE [S EXCEPT !.pc = "release"]

\* an as_scan_generic that does not look at the number of nodes
as_scan_generic_any(callback, concurrent, n_nodes, streams) ==
    LET S0 == [IdleScan EXCEPT !.entry = IF callback THEN "foreach" ELSE "background",
                               !.callback = callback, !.concurrent = concurrent,
                               !.n_nodes = n_nodes]
        S1 == [S0 EXCEPT !.nodes_rc = 1,
                         !.node_rc = [n \in ScanNodes |-> IF n <= n_nodes THEN 1 ELSE 0],
                         !.cmd = TRUE,
                         !.worker = [n \in ScanNodes |->
                                        [IdleWorker EXCEPT !.stream = streams[n]]]]
    IN  IF concurrent THEN [S1 EXCEPT !.pc = "wait", !.n_wait_nodes = 0]
        ELSE scan_serial_next([S1 EXCEPT !.pc = "serial"])

\* as_scan_generic up to the node scans
as_scan_generic(callback, concurrent, n_nodes, streams) ==
    LET S0 == [IdleScan EXCEPT !.entry = IF callback THEN "foreach" ELSE "background",
                               !.callback = callback, !.concurrent = concurrent,
                               !.n_nodes = n_nodes]
    IN  IF n_nodes = 0
        THEN [S0 EXCEPT !.err = AEROSPIKE_ERR_SERVER, !.status = AEROSPIKE_ERR_SERVER,
                        !.pc = "done"]
        ELSE LET S1 == [S0 EXCEPT !.nodes_rc = 1,
                            !.node_rc = [n \in ScanNodes |-> IF n <= n_nodes THEN 1 ELSE 0],
                            !.cmd = TRUE,
                            !.worker = [n \in ScanNodes |->
                                           [IdleWorker EXCEPT !.stream = streams[n]]]]
             IN  IF concurrent THEN [S1 EXCEPT !.pc = "queue", !.n_wait_nodes = n_nodes]
                 ELSE scan_serial_next([S1 EXCEPT !.pc = "serial"])

\* a loop over as_thread_pool_queue_task that waits for no worker once a
\* task could not be queued
scan_queue_task_nowait(S, rc) ==
    IF rc = 0
    THEN LET S1 == [S EXCEPT !.worker[S.i + 1].pc = "read", !.i = @ + 1]
         IN  IF S1.i = S.n_nodes THEN [S1 EXCEPT !.pc = "wait"] ELSE S1
    ELSE LET S1 == [S EXCEPT !.error_mutex = 1, !.n_wait_nodes = 0, !.pc = "wait"]
         IN  IF S.error_mutex = 0
             THEN [S1 EXCEPT !.status = AEROSPIKE_ERR_CLIENT, !.err = AEROSPIKE_ERR_CLIENT,
                             !.winners = @ \cup {0}, !.writers = @ \cup {0}]
             ELSE S1

\* as_scan_generic, one turn of the loop over as_thread_pool_queue_task
scan_queue_task(S, rc) ==
    IF rc = 0
    THEN LET S1 == [S EXCEPT !.worker[S.i + 1].pc = "read", !.i = @ + 1]
         IN  IF S1.i = S.n_nodes THEN [S1 EXCEPT !.pc = "wait"] ELSE S1
    ELSE LET S1 == [S EXCEPT !.error_mutex = 1, !.n_wait_nodes = S.i, !.pc = "wait"]
         IN  IF S.error_mutex = 0
             THEN [S1 EXCEPT !.status = AEROSPIKE_ERR_CLIENT, !.err = AEROSPIKE_ERR_CLIENT,
                             !.winners = @ \cup {0}, !.writers = @ \cup {0}]
             ELSE S1

\* as_scan_generic, one turn of the loop over cf_queue_pop
scan_pop_complete(S) ==
    LET complete == Head(S.complete_q)
    IN  [S EXCEPT !.complete_q = Tail(@), !.popped = @ + 1,
                  !.status = IF complete.result # AEROSPIKE_OK /\ @ = AEROSPIKE_OK
                             THEN complete.result ELSE @]

\* as_scan_generic after the node scans: the nodes, the node array and the
\* command are released, and a user abort becomes AEROSPIKE_OK
scan_generic_release(S) ==
    [S EXCEPT !.node_rc = [n \in ScanNodes |-> 0], !.nodes_rc = 0, !.cmd = FALSE,
              !.complete_q = <<>>,
              !.status = IF @ = AEROSPIKE_ERR_CLIENT_ABORT THEN AEROSPIKE_OK ELSE @,
              !.pc = "eos"]

\* aerospike_scan_node up to the node scan: found tells whether
\* as_node_get_by_name finds the node
aerospike_scan_node(callback, found, stream) ==
    LET S0 == [IdleScan EXCEPT !.entry = "node", !.callback = callback]
    IN  IF ~found
        THEN [S0 EXCEPT !.err = AEROSPIKE_ERR_PARAM, !.status = AEROSPIKE_ERR_PARAM,
                        !.pc = "done"]
        ELSE [S0 EXCEPT !.n_nodes = 1, !.node_rc[1] = 1, !.cmd = TRUE, !.pc = "serial",
                        !.worker[1] = [IdleWorker EXCEPT !.stream = stream, !.pc = "read"]]

\* aerospike_scan_node after the node scan: the command and the node are
\* released
scan_node_release(S) ==
    [S EXCEPT !.node_rc = [n \in ScanNodes |-> 0], !.cmd = FALSE, !.pc = "eos"]

\* the callback that signals completion, made if a callback was supplied and
\* the status is AEROSPIKE_OK; the call returns
scan_end_callback(S) ==
    IF S.callback /\ S.status = AEROSPIKE_OK
    THEN [S EXCEPT !.eos = @ + 1, !.late = IF S.aborted THEN @ + 1 ELSE @, !.pc = "done"]
    ELSE [S EXCEPT !.pc = "done"]

\* a scan action leaves the cluster alone
ScanStep(S) ==
    /\ scan' = S
    /\ UNCHANGED <<asc, node, table, inflight, dns, io, thr>>

\* aerospike_scan_foreach or aerospike_scan_background is called
ScanGeneric(Callbacks, Concurrents, NNodes, StreamSet) ==
    /\ scan.pc = "idle"
    /\ \E callback \in Callbacks, concurrent \in Concurrents, n_nodes \in NNodes,
          streams \in [ScanNodes -> StreamSet] :
           /\ \A n \in ScanNodes : n > n_nodes => streams[n] = <<>>
           /\ ScanStep(as_scan_generic(callback, concurrent, n_nodes, streams))

\* aerospike_scan_node is called
ScanNode(Callbacks, Founds, StreamSet) ==
    /\ scan.pc = "idle"
    /\ \E callback \in Callbacks, found \in Founds, stream \in StreamSet :
           ScanStep(aerospike_scan_node(callback, found, stream))

\* the next task is handed to the thread pool
ScanQueueTask(Rcs) ==
    /\ scan.pc = "queue"
    /\ \E rc \in Rcs : ScanStep(scan_queue_task(scan, rc))

\* worker n reads a message and, if it is a record, calls the callback
WorkerRead(n, Rets) ==
    /\ scan.worker[n].pc = "read"
    /\ \E ret \in Rets : ScanStep(as_scan_parse_records(scan, n, ret))

\* worker n loads error_mutex
WorkerCheck(n) ==
    /\ scan.worker[n].pc = "check"
    /\ ScanStep(scan_check_mutex(scan, n))

\* worker n is back from as_command_execute: the swap of error_mutex and the
\* copy of the error; in the serial loop and in aerospike_scan_node the
\* caller has its status
WorkerFas(n) ==
    /\ scan.worker[n].pc = "fas"
    /\ LET S1 == as_scan_command_execute(scan, n)
       IN  IF scan.pc = "serial"
           THEN LET S2 == [S1 EXCEPT !.worker[n].pc = "done",
                                     !.status = scan.worker[n].status, !.i = @ + 1]
                IN  ScanStep(IF scan.entry = "node" THEN [S2 EXCEPT !.pc = "release"]
                             ELSE scan_serial_next(S2))
           ELSE ScanStep([S1 EXCEPT !.worker[n].pc = "push"])

\* as_scan_worker pushes its result
WorkerPush(n) ==
    /\ scan.worker[n].pc = "push"
    /\ ScanStep([scan EXCEPT !.worker[n].pc = "done",
                             !.complete_q = Append(@, [node |-> n,
                                                       result |-> scan.worker[n].status])])

\* a completion is popped
ScanPop ==
    /\ scan.pc = "wait"
    /\ scan.popped < scan.n_wait_nodes
    /\ scan.complete_q # <<>>
    /\ ScanStep(scan_pop_complete(scan))

\* the node scans are over
ScanRelease ==
    \/ /\ scan.pc = "wait"
       /\ scan.popped = scan.n_wait_nodes
       /\ ScanStep(scan_generic_release(scan))
    \/ /\ scan.pc = "release"
       /\ ScanStep(IF scan.entry = "node" THEN scan_node_release(scan)
                   ELSE scan_generic_release(scan))

\* the final callback, and the return
ScanEnd ==
    /\ scan.pc = "eos"
    /\ ScanStep(scan_end_callback(scan))

\* --------------------------------------------------------- specifications

\* the state ev2citrusleaf_cluster_create leaves
Init ==
    /\ asc = [node_v |-> <<>>, n_partitions |-> 0, follow |-> TRUE, shutdown |-> FALSE,
              last_node |-> 0, infos_in_progress |-> 0, host_str_v |-> <<>>,
              host_port_v |-> <<>>, timer_set |-> TRUE, request_q |-> <<>>,
              restarted |-> <<>>]
    /\ node = [n \in NodeIds |-> NoNodeRec]
    /\ table = [c \in Cells |-> NoNode]
    /\ inflight = [r \in Requests |-> 0]
    /\ dns = [hp \in Hosts \X {Port} |-> 0]
    /\ io = IoIdle
    /\ thr = [t \in Threads |-> IdleThread]
    /\ scan = IdleScan

\* One server, one application thread: the tender, the info and replicas
\* callbacks, the router, ok() and put().
Next ==
    \/ AddHost({"10.0.0.1"}, {0})
    \/ ClusterTimer({0}, {0})
    \/ PingCallback({0}, {"A"}, {"2"}, {0})
    \/ \E cn \in NodeIds : NodeTimer(cn, {0}, {0})
    \/ \E cn \in NodeIds : InfoCbEnter(cn, {0, -1}, {"A"}, {"7"}, {<<>>})
    \/ InfoCbBody({0})
    \/ \E cn \in NodeIds :
           ReplicasEnter(cn, {0, -1}, {<< <<"ns1", "0">> >>}, {<< <<"ns1", "0">> >>}, {"7"})
    \/ ReplicasBody
    \/ RouterLookup(1, "ns1", <<0, 0>>, TRUE)
    \/ RouterCheck(1)
    \/ RouterRandom(1)
    \/ RouterReturn(1)
    \/ UserOkCount(1)
    \/ UserOkSet(1)
    \/ UserPut(1)

Spec == Init /\ [][Next]_vars

\* Two servers that may answer a probe with any name and any partition
\* count, and then stop answering: the new-address path, and the removal of
\* the nodes whose info requests fail.
NextProbe ==
    \/ AddHost(Hosts, InfoHostRvs)
    \/ ClusterTimer(InfoHostRvs, {0})
    \/ PingCallback({0, -1}, NodeNames \cup {""}, {"", "2", "4097"}, EventAddRvs)
    \/ \E cn \in NodeIds : NodeTimer(cn, {-1}, {0})

SpecProbe == Init /\ [][NextProbe]_vars

\* One server that names its peer in `services`, or answers with another
\* name, while the application switches `follow`.
NextServices ==
    \/ AddHost(Hosts, {0})
    \/ AddHostAgain(Hosts, {0})
    \/ PingCallback({0}, {"A"}, {"2"}, {0})
    \/ \E cn \in NodeIds : NodeTimer(cn, {0}, EventAddRvs)
    \/ \E cn \in NodeIds :
           InfoCbEnter(cn, {0, -1}, NodeNames, {""}, {<<>>, << <<"10.0.0.2", "3000">> >>})
    \/ InfoCbBody(InfoHostRvs)
    \/ \E f \in BOOLEAN : Follow(f)

SpecServices == Init /\ [][NextServices]_vars

\* Two application threads in the router while the servers do not answer:
\* the nodes are dunned by their failing info requests and removed.
NextRouter ==
    \/ AddHost(Hosts, {0})
    \/ PingCallback({0}, NodeNames, {""}, {0})
    \/ \E cn \in NodeIds : NodeTimer(cn, {-1}, {0})
    \/ \E t \in Threads : RouterLookup(t, "ns1", <<0, 0>>, TRUE)
    \/ \E t \in Threads : RouterRandom(t)
    \/ \E t \in Threads : RouterReturn(t)
    \/ \E t \in Threads : UserPut(t)

SpecRouter == Init /\ [][NextRouter]_vars

\* The event loop runs every handler that is due: an armed timer fires and a
\* launched info request is answered or times out.  The application threads
\* are under no obligation.
Fairness ==
    /\ WF_vars(ClusterTimer({0}, {0}))
    /\ WF_vars(PingCallback({0}, {"A"}, {"2"}, {0}))
    /\ \A cn \in NodeIds : WF_vars(NodeTimer(cn, {0}, {0}))
    /\ \A cn \in NodeIds : WF_vars(InfoCbEnter(cn, {0, -1}, {"A"}, {"7"}, {<<>>}))
    /\ WF_vars(InfoCbBody({0}))
    /\ \A cn \in NodeIds :
           WF_vars(ReplicasEnter(cn, {0, -1}, {<< <<"ns1", "0">> >>},
                                 {<< <<"ns1", "0">> >>}, {"7"}))
    /\ WF_vars(ReplicasBody)

FairSpec == Init /\ [][Next]_vars /\ Fairness

\* One server that stops answering and one application thread whose
\* operations on the node time out: dun() without ok().
NextDun ==
    \/ AddHost({"10.0.0.1"}, {0})
    \/ PingCallback({0}, {"A"}, {""}, {0})
    \/ \E cn \in NodeIds : NodeTimer(cn, {-1}, {0})
    \/ RouterLookup(1, "ns1", <<0, 0>>, TRUE)
    \/ RouterRandom(1)
    \/ RouterReturn(1)
    \/ UserDunAdd(1, "DUN_USER_TIMEOUT")
    \/ UserDunTest(1)
    \/ UserDunSet(1)
    \/ UserPut(1)

SpecDun == Init /\ [][NextDun]_vars


\* Two servers that answer every request, the second found through the
\* services of the first; their replicas responses name the last partition,
\* the one past it, and namespaces of 31 and 32 characters.
ReplicasLists ==
    {<<>>, << <<"ns1", "1">> >>, << <<"ns1", "2">> >>,
     << <<Ns31, "0">> >>, << <<Ns32, "0">> >>}

NextReplicas ==
    \/ AddHost({"10.0.0.1"}, {0})
    \/ PingCallback({0}, NodeNames, {"2"}, {0})
    \/ \E cn \in NodeIds : NodeTimer(cn, {0}, {0})
    \/ \E cn \in NodeIds :
           InfoCbEnter(cn, {0}, {node[cn].name}, {"7"}, {<< <<"10.0.0.2", "3000">> >>})
    \/ InfoCbBody({0})
    \/ \E cn \in NodeIds :
           ReplicasEnter(cn, {0}, ReplicasLists, {<<>>, << <<"ns1", "1">> >>}, {"7", "8"})
    \/ ReplicasBody
    \/ TimePasses

SpecReplicas == Init /\ [][NextReplicas]_vars


\* Destroy: a seed host, its node, the node's info and replicas requests, and
\* a thread that destroys the cluster with a delay in or out of range.
Delays == {-1, 0, 100, 60000, 60001}

NextDestroy ==
    \/ AddHost({"10.0.0.1"}, {0})
    \/ PingCallback({0}, {"A"}, {"2"}, {0})
    \/ \E cn \in NodeIds : NodeTimer(cn, {0}, {0})
    \/ \E cn \in NodeIds : InfoCbEnter(cn, {0}, {"A"}, {"7"}, {<<>>})
    \/ InfoCbBody({0})
    \/ \E cn \in NodeIds :
           ReplicasEnter(cn, {0}, {<< <<"ns1", "0">> >>}, {<< <<"ns1", "1">> >>}, {"7"})
    \/ ReplicasBody
    \/ DestroyBegin(1, Delays)
    \/ DestroySleepEnds(1)
    \/ DestroyLoopEnds(1, {0, -1})

SpecDestroy == Init /\ [][NextDestroy]_vars

\* Scenario S1: one seed host, a server that answers the probe with node A and
\* 4096 partitions, the node's info request with partition-generation 7 and no
\* services, and its replicas request with ns1:0 and ns1:1 read and write;
\* an application thread routes a write of partition 0 meanwhile.
S1Replicas == << <<"ns1", "0">>, <<"ns1", "1">> >>

NextS1 ==
    \/ AddHost({"10.0.0.1"}, {0})
    \/ ClusterTimer({0}, {0})
    \/ PingCallback({0}, {"A"}, {"4096"}, {0})
    \/ \E cn \in NodeIds : NodeTimer(cn, {0}, {0})
    \/ \E cn \in NodeIds : InfoCbEnter(cn, {0}, {"A"}, {"7"}, {<<>>})
    \/ InfoCbBody({0})
    \/ \E cn \in NodeIds : ReplicasEnter(cn, {0}, {S1Replicas}, {S1Replicas}, {"7"})
    \/ ReplicasBody
    \/ TimePasses
    \/ RouterLookup(1, "ns1", <<0, 0>>, TRUE)
    \/ RouterCheck(1)
    \/ RouterRandom(1)
    \/ RouterReturn(1)
    \/ UserPut(1)

SpecS1 == Init /\ [][NextS1]_vars


\* Scans: every entry point, with and without a callback, serial and
\* concurrent, over zero to MaxScanNodes nodes streaming any messages; the
\* thread pool may refuse a task, and the callback may return false.
NextScan ==
    \/ ScanGeneric(BOOLEAN, BOOLEAN, 0 .. MaxScanNodes, Streams)
    \/ ScanNode(BOOLEAN, BOOLEAN, Streams)
    \/ ScanQueueTask({0, -1})
    \/ \E n \in ScanNodes : WorkerRead(n, BOOLEAN)
    \/ \E n \in ScanNodes : WorkerCheck(n)
    \/ \E n \in ScanNodes : WorkerFas(n)
    \/ \E n \in ScanNodes : WorkerPush(n)
    \/ ScanPop
    \/ ScanRelease
    \/ ScanEnd

SpecScan == Init /\ [][NextScan]_vars

\* Connection pool: one node, and threads that check descriptors out of its
\* pool and put them back; a pooled descriptor stays connected, is closed by
\* the peer, fails or turns invalid.
NextFd ==
    \/ AddHost({"10.0.0.1"}, {0})
    \/ PingCallback({0}, {"A"}, {"2"}, {0})
    \/ \E t \in Threads : RouterLookup(t, "ns1", <<0, 0>>, TRUE)
    \/ \E t \in Threads : RouterRandom(t)
    \/ \E t \in Threads : RouterReturn(t)
    \/ \E t \in Threads : UserFdGet(t, ConnectResults)
    \/ \E t \in Threads : UserFdPut(t, ProbeResults)
    \/ \E t \in Threads : UserFdNone(t)
    \/ \E t \in Threads : UserPut(t)

SpecFd == Init /\ [][NextFd]_vars

\* One server that answers its info and replicas requests, and one
\* application thread whose operations on the node fail on the network:
\* dun() by the thread against the callbacks' test of dunned and their ok().
NextLatch ==
    \/ AddHost({"10.0.0.1"}, {0})
    \/ PingCallback({0}, {"A"}, {"2"}, {0})
    \/ \E cn \in NodeIds : NodeTimer(cn, {0}, {0})
    \/ \E cn \in NodeIds : InfoCbEnter(cn, {0}, {"A"}, {"7"}, {<<>>})
    \/ InfoCbBody({0})
    \/ \E cn \in NodeIds :
           ReplicasEnter(cn, {0}, {<< <<"ns1", "0">> >>}, {<< <<"ns1", "0">> >>}, {"7"})
    \/ ReplicasBody
    \/ RouterLookup(1, "ns1", <<0, 0>>, TRUE)
    \/ RouterRandom(1)
    \/ RouterReturn(1)
    \/ UserDunAdd(1, "DUN_NETWORK_ERROR")
    \/ UserDunTest(1)
    \/ UserDunSet(1)
    \/ UserPut(1)

SpecLatch == Init /\ [][NextLatch]_vars


\* One server whose info and replicas requests succeed or fail, in any
\* order, with no application thread: the weights of the failures, the
\* reset by a success, and the removal of the dunned node by its timer.
NextWeights ==
    \/ AddHost({"10.0.0.1"}, {0})
    \/ ClusterTimer({0}, {0})
    \/ PingCallback({0}, {"A"}, {"2"}, {0})
    \/ \E cn \in NodeIds : NodeTimer(cn, {0, -1}, {0})
    \/ \E cn \in NodeIds : InfoCbEnter(cn, {0, -1}, {"A"}, {"7"}, {<<>>})
    \/ InfoCbBody({0})
    \/ \E cn \in NodeIds :
           ReplicasEnter(cn, {0, -1}, {<< <<"ns1", "0">> >>}, {<< <<"ns1", "1">> >>}, {"7", "8"})
    \/ ReplicasBody
    \/ TimePasses

SpecWeights == Init /\ [][NextWeights]_vars


\* Two seed hosts of one server whose probes are answered or fail and whose
\* node then stops answering and is removed; the cluster timer keeps firing
\* and the server answers some probe of every run of probes.
NextHeal ==
    \/ AddHost(Hosts, {0})
    \/ ClusterTimer({0}, {0})
    \/ PingCallback({0, -1}, {"A"}, {"2"}, {0})
    \/ \E cn \in NodeIds : NodeTimer(cn, {-1}, {0})

FairnessHeal ==
    /\ WF_vars(ClusterTimer({0}, {0}))
    /\ SF_vars(PingCallback({0}, {"A"}, {"2"}, {0}))

FairSpecHeal == Init /\ [][NextHeal]_vars /\ FairnessHeal


\* Application threads that find no node and park their requests, before the
\* seed host is added and after its node has been removed; the probes of the
\* seed are answered or fail.
NextPark ==
    \/ AddHost({"10.0.0.1"}, {0})
    \/ ClusterTimer({0}, {0})
    \/ PingCallback({0, -1}, {"A"}, {"2"}, {0})
    \/ \E cn \in NodeIds : NodeTimer(cn, {-1}, {0})
    \/ \E t \in Threads : RouterLookup(t, "ns1", <<0, 0>>, TRUE)
    \/ \E t \in Threads : RouterRandom(t)
    \/ \E t \in Threads : RouterReturn(t)
    \/ \E t \in Threads : RouterPark(t)
    \/ \E t \in Threads : UserPut(t)

SpecPark == Init /\ [][NextPark]_vars


\* Drain: a seed host of a two-node cluster whose first node names the second
\* in `services` until the client has probed it, and a thread that destroys
\* the cluster while the nodes' timers are armed.  Every request is answered;
\* the dispatcher runs every handler that is ready again and again, and the
\* loop of destroy tests the counter after every pass of event_base_loop.
DrainServices ==
    IF Len(asc.node_v) < 2 /\ \A r \in Requests : r.kind = "ping" => inflight[r] = 0
    THEN << <<"10.0.0.2", "3000">> >> ELSE <<>>

DrainInfoCb(cn) == InfoCbEnter(cn, {0}, {node[cn].name}, {"7"}, {DrainServices})

DrainReplicas(cn) ==
    ReplicasEnter(cn, {0}, {<< <<"ns1", "0">> >>}, {<< <<"ns1", "1">> >>}, {"7"})

NextDrain ==
    \/ (\A t \in Threads : thr[t].pc = "idle") /\ AddHost({"10.0.0.1"}, {0})
    \/ PingCallback({0}, NodeNames, {"2"}, {0})
    \/ \E cn \in NodeIds : NodeTimer(cn, {0}, {0})
    \/ \E cn \in NodeIds : DrainInfoCb(cn)
    \/ InfoCbBody({0})
    \/ \E cn \in NodeIds : DrainReplicas(cn)
    \/ ReplicasBody
    \/ DestroyBegin(1, {0})
    \/ DestroySleepEnds(1)
    \/ DestroyLoopEnds(1, {0})

FairnessDrain ==
    /\ SF_vars(PingCallback({0}, NodeNames, {"2"}, {0}))
    /\ \A cn \in NodeIds : SF_vars(NodeTimer(cn, {0}, {0}))
    /\ \A cn \in NodeIds : SF_vars(DrainInfoCb(cn))
    /\ SF_vars(InfoCbBody({0}))
    /\ \A cn \in NodeIds : SF_vars(DrainReplicas(cn))
    /\ SF_vars(ReplicasBody)
    /\ WF_vars(DestroySleepEnds(1))
    /\ SF_vars(DestroyLoopEnds(1, {0}))

FairSpecDrain == Init /\ [][NextDrain]_vars /\ FairnessDrain


\* Counter: an application thread adds the seed hosts while the dispatcher
\* answers the probes, tends and runs the node's info request.
NextCounter ==
    \/ UserAddHost(1, Hosts)
    \/ UserTendHost(1, {0, -1})
    \/ UserTendIncr(1)
    \/ ClusterTimer({0}, {0})
    \/ PingCallback({0, -1}, {"A"}, {"2"}, {0})
    \/ \E cn \in NodeIds : NodeTimer(cn, {0}, {0})
    \/ \E cn \in NodeIds : InfoCbEnter(cn, {0}, {"A"}, {"7"}, {<<>>})
    \/ InfoCbBody({0})

SpecCounter == Init /\ [][NextCounter]_vars


\* ------------------------------------------------------------ properties

InList(n) == Contains(asc.node_v, n)
CellsOf(n) == {c \in Cells : table[c] = n}

\* C1: every non-empty partition-table cell points to a node that is in the
\* cluster node list.
C1_CellsPointIntoList == \A c \in Cells : table[c] # NoNode => InList(table[c])

\* the node is out of the list and of the table, its "C" and "L" released
Removed(n) ==
    /\ ~InList(n)
    /\ CellsOf(n) = {}
    /\ node[n].tags["C"] = 0
    /\ node[n].tags["L"] = 0

\* C2: whenever the dunned flag of a node becomes true, there is a later
\* state in which the node is absent from the node list and from every
\* partition-table cell and its "C" and "L" references are released.
C2_DunnedIsRemoved ==
    \A n \in NodeIds : (node[n].MAGIC /\ node[n].dunned = 1) ~> Removed(n)

\* C3: every node in the cluster node list has a non-empty name, no two
\* nodes in the list share a name and no node appears twice, also when
\* several probes of the same server are in flight and all answer with the
\* same name.
C3_NamesUnique ==
    \A i, j \in 1 .. Len(asc.node_v) :
        /\ node[asc.node_v[i]].MAGIC
        /\ node[asc.node_v[i]].name # ""
        /\ i # j => /\ asc.node_v[i] # asc.node_v[j]
                    /\ node[asc.node_v[i]].name # node[asc.node_v[j]].name

\* two probes of different addresses answered with the same name: the one
\* node carries both addresses
C3_Witness ==
    \E n \in NodeIds : InList(n) /\ Len(node[n].sockaddr_in_v) = 2

\* C9: once the partition count is non-zero it never changes.
C9_SetOnce ==
    [][asc.n_partitions # 0 => asc'.n_partitions = asc.n_partitions]_vars

\* C10: a partition count that is set lies in 1 .. 4096.
C10_CountInRange ==
    asc.n_partitions = 0 \/ (0 < asc.n_partitions /\ asc.n_partitions <= 4096)

\* how many times the node is in the list
ListCount(n) == Cardinality({i \in 1 .. Len(asc.node_v) : asc.node_v[i] = n})

\* the requests of one kind the node has outstanding: in flight, or answered
\* and inside the callback
Outstanding(n, req, h) ==
    inflight[req] + (IF io.h = h /\ io.cn = n THEN 1 ELSE 0)

\* the holders of references to the node
Holders(n) ==
    ListCount(n)
    + (IF node[n].timer_event_registered THEN 1 ELSE 0)
    + Outstanding(n, InfoReq(n), "infocb")
    + Outstanding(n, ReplicasReq(n), "replicas")
    + Cardinality(CellsOf(n))
    + Cardinality({t \in Threads : thr[t].cn = n})

\* C4: between handlers, the reference count of a node is the number of its
\* holders (the list, the armed timer, the info and replicas requests in
\* flight, the cells, the router handles); a node that has holders is not
\* destroyed and a node that has none is.
C4_CountIsHolders ==
    io.h = "idle" =>
        \A n \in NodeIds :
            /\ node[n].MAGIC => node[n].rc = Holders(n) /\ node[n].rc > 0
            /\ ~node[n].MAGIC => Holders(n) = 0

\* C5: a call of cl_cluster_node_get during which some node of the list
\* stayed non-dunned from beginning to end returns a node.
C5_LiveNodeIsFound ==
    \A t \in Threads :
        thr[t].pc = "ret" /\ thr[t].cn = NoNode => thr[t].stable = {}

\* what cl_cluster_node_get hands back to thread t in the step that ends it
RouterResult(t) ==
    /\ thr[t].pc = "check" =>
           \* the owner of the cell, seen not dunned
           /\ thr'[t].cn = thr[t].owner
           /\ node[thr[t].owner].dunned = 0
    /\ thr[t].pc = "random" =>
           \* the cell was empty or its owner dunned and released: a node
           \* of the list, seen not dunned, or nothing
           /\ thr[t].owner # NoNode => thr[t].sawDunned
           /\ thr'[t].cn # NoNode =>
                  InList(thr'[t].cn) /\ node[thr'[t].cn].dunned = 0
    \* the list was empty during the whole call: nothing
    /\ thr'[t].emptyAll => thr'[t].cn = NoNode

\* C6: cl_cluster_node_get returns the owner of the cell when the cell is
\* non-empty and its owner is not dunned, otherwise a node of the list found
\* by the round-robin walk, never a node it saw dunned, and nothing when the
\* list is empty.
C6_RouterReturns ==
    [][\A t \in Threads :
          thr[t].pc \in {"check", "random"} /\ thr'[t].pc = "ret" => RouterResult(t)]_vars

\* node_timer_infocb_fn finishes in this step
InfoCbEnds == io.h = "infocb" /\ io'.h = "idle"

\* the value of the line `name` of the response the callback holds, "" if
\* the response has no such line with a value
Field(name) ==
    LET hits == {i \in 1 .. Len(io.response) :
                    Len(io.response[i]) = 2 /\ io.response[i][1] = name}
    IN  IF io.rv # 0 \/ hits = {} THEN "" ELSE io.response[CHOOSE i \in hits : TRUE][2]

\* C7: an info response whose `node` value differs from the stored name of
\* the node sets the dunned flag of the node, and the stored name of a node
\* never changes.
C7_BadNameDuns ==
    [][/\ InfoCbEnds /\ Field("node") \notin {"", node[io.cn].name}
          => node'[io.cn].dunned = 1
       /\ \A n \in NodeIds :
              node[n].MAGIC /\ node'[n].MAGIC => node'[n].name = node[n].name]_vars

\* the peers a healthy response lists in its services line
Peers ==
    IF Field("node") # node[io.cn].name \/ Field("services") = "" THEN {}
    ELSE {Field("services")[i][1] : i \in 1 .. Len(Field("services"))}

\* C8: the peers of the services line are submitted to the new-address path
\* when follow is true; when follow is false the line causes no probe, no new
\* node and no new seed-host entry.
C8_ServicesIffFollow ==
    [][InfoCbEnds =>
          /\ asc.follow => \A h \in Peers : Contains(asc'.host_str_v, h)
          /\ ~asc.follow =>
                 /\ asc'.host_str_v = asc.host_str_v
                 /\ asc'.host_port_v = asc.host_port_v
                 /\ asc'.node_v = asc.node_v
                 /\ \A sa \in Addrs, p \in BOOLEAN :
                        inflight'[PingReq(sa, p)] = inflight[PingReq(sa, p)]]_vars


\* a thread is inside dun() on the node, past the addition
InDun(n) == \E t \in Threads : thr[t].cn = n /\ thr[t].pc \in {"dun_test", "dun_set"}

\* C11: without ok(), the dunned flag of a node is set exactly when its dun
\* accumulator exceeds 800: at 800 and below the flag is clear and the node
\* is in the list, above 800 the flag is set once dun() has returned.
C11_DunnedAbove800 ==
    \A n \in NodeIds :
        node[n].MAGIC =>
            /\ node[n].dun_count <= 800 => node[n].dunned = 0 /\ InList(n)
            /\ node[n].dun_count > 800 /\ ~InDun(n) => node[n].dunned = 1

\* the accumulator stands at 800 after a dun() by the thread
C11_Witness ==
    \E n \in NodeIds :
        /\ node[n].dun_count = 800 /\ node[n].dunned = 0 /\ InList(n)
        /\ thr[1].cn = n /\ thr[1].pc = "has"


\* node_replicas_fn finishes in this step, having processed the response
ReplicasEnds == io.h = "replicas" /\ io'.h = "idle" /\ io.rv = 0

\* the entries of the replicas-read (write = FALSE) or replicas-write list
\* of the response the callback holds
Entries(write) ==
    LET l == Field(IF write THEN "replicas-write" ELSE "replicas-read")
    IN  IF l = "" THEN {} ELSE {l[i] : i \in 1 .. Len(l)}

\* C12: a replicas entry with a namespace of 31 characters is installed in
\* the partition table, one with a namespace of 32 characters is not.
C12_NamespaceLength ==
    [][ReplicasEnds =>
          \A write \in BOOLEAN : \A e \in Entries(write) :
              LET pid == atoi(e[2])
              IN  0 <= pid /\ pid < asc.n_partitions =>
                     /\ Len(e[1]) <= 31 => table'[<<e[1], pid, write>>] = io.cn
                     /\ Len(e[1]) > 31 => table'[<<e[1], pid, write>>] = NoNode]_vars

\* C13: a replicas entry with partition id N is not handed to the partition
\* table and writes no cell, one with partition id N - 1 is installed; every
\* id handed to cl_partition_table_set is in 0 .. N - 1.
C13_PartitionIdBelowN ==
    [][ReplicasEnds =>
          \A write \in BOOLEAN : \A e \in Entries(write) :
              LET pid == atoi(e[2])
              IN  /\ partitions_entry_passes(World, e) =>
                         0 <= pid /\ pid < asc.n_partitions
                  /\ pid = asc.n_partitions => table'[<<e[1], pid, write>>] = NoNode
                  /\ pid = asc.n_partitions - 1 /\ Len(e[1]) <= 30 =>
                         table'[<<e[1], pid, write>>] = io.cn]_vars


\* C14: processing the replicas response of a node a second time, right
\* after the first, leaves the partition table as the first processing
\* left it.
C14_ReplicasIdempotent ==
    [][ReplicasEnds =>
          node_replicas_fn_body(World', io.cn, io.rv, io.response).table = table']_vars

\* both nodes own cells: responses have been processed on tables that held
\* cells of the node itself and of the other node
C14_Witness ==
    \E n, m \in NodeIds : n # m /\ CellsOf(n) # {} /\ CellsOf(m) # {}


\* C15: the seed-host list holds no two entries with the same host name and
\* port, and its two vectors have the same length, after any additions by
\* ev2citrusleaf_cluster_add_host and from services lines.
C15_SeedHostsUnique ==
    /\ Len(asc.host_str_v) = Len(asc.host_port_v)
    /\ \A i, j \in 1 .. Len(asc.host_str_v) :
           i # j => <<asc.host_str_v[i], asc.host_port_v[i]>>
                        # <<asc.host_str_v[j], asc.host_port_v[j]>>

\* both hosts are in the list and a node's info request is answered: the
\* services line and add_host name a host the list already has
C15_Witness ==
    /\ Len(asc.host_str_v) = 2
    /\ io.h = "infocb" /\ Field("services") # ""


\* the address is in the address list of a node of the cluster
AddrKnown(sa) == \E n \in NodeIds : InList(n) /\ Contains(node[n].sockaddr_in_v, sa)

\* ev2citrusleaf_cluster_add_host adds host h to the seed hosts in this step
HostAdded(h) ==
    /\ io.h = "idle"
    /\ ~Contains(asc.host_str_v, h)
    /\ Contains(asc'.host_str_v, h)

\* C16: after add_host of an address that no node has, a probe of the
\* address is sent (so that a node with the name the server answers can
\* join the list), whether the node list is empty or not.
C16_AddHostProbes ==
    [][\A h \in Hosts :
          HostAdded(h) /\ ~AddrKnown(SockAddr(h, Port)) =>
              \E p \in BOOLEAN : inflight'[PingReq(SockAddr(h, Port), p)] > 0]_vars


\* the nodes of the list that have a name, are not dunned and have an address
ActiveNodes ==
    {n \in NodeIds : /\ InList(n)
                     /\ node[n].name # ""
                     /\ node[n].dunned = 0
                     /\ Len(node[n].sockaddr_in_v) > 0}

\* C17: ev2citrusleaf_cluster_get_active_node_count returns the number of
\* nodes of the list that have a name, are not dunned and have an address.
C17_ActiveNodeCount ==
    ev2citrusleaf_cluster_get_active_node_count(World) = Cardinality(ActiveNodes)


\* a thread is inside ev2citrusleaf_cluster_destroy
DestroyBegun == \E t \in Threads : thr[t].pc \in {"destroy_sleep", "destroy_loop"}

\* a step of an info callback: a response is taken (cluster_ping_node_fn, or
\* the entry of node_timer_infocb_fn or node_replicas_fn), or the callback in
\* progress ends
CallbackStep ==
    \/ \E r \in Requests : inflight'[r] < inflight[r]
    \/ io.h \in {"infocb", "replicas"} /\ io'.h = "idle"

\* the step creates no node, writes no cell, changes no health counter and
\* sends no info request
ShortCircuits ==
    /\ \A n \in NodeIds : node'[n].MAGIC => node[n].MAGIC
    /\ asc'.node_v = asc.node_v
    /\ table' = table
    /\ \A n \in NodeIds :
           node[n].MAGIC /\ node'[n].MAGIC =>
               node'[n].dun_count = node[n].dun_count /\ node'[n].dunned = node[n].dunned
    /\ \A r \in Requests : inflight'[r] <= inflight[r]

\* C18: once ev2citrusleaf_cluster_destroy has begun the shutdown flag is
\* set, and every step of an info callback taken from then on short-circuits:
\* no node created, no cell written, no health counter changed, no info
\* request sent.
C18_DestroyShortCircuits ==
    [][/\ DestroyBegun' => asc'.shutdown
       /\ DestroyBegun /\ CallbackStep => asc.shutdown /\ ShortCircuits]_vars

\* x brought into lo .. hi
Clamp(x, lo, hi) == IF x < lo THEN lo ELSE IF x > hi THEN hi ELSE x

\* C19: the delay ev2citrusleaf_cluster_destroy sleeps is the delay_ms of the
\* caller clamped to 0 .. 60000, that is min(max(delay_ms, 0), 60000).
C19_DelayClamped ==
    \A t \in Threads :
        thr[t].pc \in {"destroy_sleep", "destroy_loop", "destroyed"} =>
            thr[t].delay_ms = Clamp(thr[t].delay_arg, 0, 60000)

\* the cells scenario S1 fills
S1Cells == {<<"ns1", 0, FALSE>>, <<"ns1", 1, FALSE>>, <<"ns1", 0, TRUE>>, <<"ns1", 1, TRUE>>}

\* what scenario S1 expects: one node, named A, 4096 partitions, the four
\* cells owned by A and every other cell empty, A's partition generation 7
S1Expected ==
    /\ Len(asc.node_v) = 1
    /\ LET a == asc.node_v[1]
       IN  /\ node[a].MAGIC
           /\ node[a].name = "A"
           /\ node[a].partition_generation = 7
           /\ \A c \in Cells : table[c] = (IF c \in S1Cells THEN a ELSE NoNode)
    /\ asc.n_partitions = 4096

\* C20: scenario S1. When the replicas response has been processed, after the
\* probe response and the node-info response, the cluster has exactly one
\* node, named A, its partition count is 4096, the cells (ns1,0), (ns1,1) of
\* the read and of the write table are A's, every other cell is empty, and A's
\* stored partition generation is 7; and so it stays while A has generation 7.
C20_ScenarioS1 ==
    /\ [][ReplicasEnds => S1Expected']_vars
    /\ [](\A n \in NodeIds :
             node[n].MAGIC /\ node[n].partition_generation = 7 => S1Expected)

\* the replicas response of S1 has been processed and the router has found A
\* for a write of partition 0
C20_Witness ==
    /\ S1Expected
    /\ thr[1].pc = "has"
    /\ thr[1].cn = asc.node_v[1]


\* the stream ends with a marker after its records, and nothing fails:
\* records, then "last" or "notfound", then whatever the node sends after it
CleanStream(st) ==
    \E k \in 1 .. Len(st) :
        /\ st[k] \in {"last", "notfound"}
        /\ \A j \in 1 .. k - 1 : st[j] = "rec"

\* the setup of scenarios S5 and S6: aerospike_scan_foreach, concurrent, over
\* two nodes that stream records and a marker, every task taken by the
\* thread pool
ScanS5Setup ==
    /\ scan.pc # "idle"
    /\ scan.entry = "foreach"
    /\ scan.concurrent
    /\ scan.n_nodes = 2
    /\ scan.pc # "queue" => scan.n_wait_nodes = 2
    /\ 0 \notin scan.winners
    /\ \A n \in ScanNodes : CleanStream(scan.worker[n].stream)

\* every worker that was started has pushed its result
WorkersDone == \A n \in ScanNodes : scan.worker[n].pc \in {"none", "done"}

\* C21: scenario S6.  In a concurrent scan over two live nodes, once the
\* callback has returned false it is not called again, for a record or for
\* the end of the stream, and when the call returns both workers have
\* terminated and the status is AEROSPIKE_OK.
C21_AbortStopsCallbacks ==
    ScanS5Setup /\ scan.aborted =>
        /\ scan.late = 0
        /\ scan.pc = "done" => WorkersDone /\ scan.status = AEROSPIKE_OK

\* message k of the stream is a record that comes before the stream's marker
BeforeMarker(st, k) ==
    /\ k <= Len(st)
    /\ \A j \in 1 .. k : st[j] = "rec"

\* how often record k of node n is to be delivered
Due(n, k) == IF BeforeMarker(scan.worker[n].stream, k) THEN 1 ELSE 0

\* C22: scenario S5.  In a concurrent scan over two live nodes with no
\* failure and no abort, every record a node streams before its marker (LAST
\* or NOT_FOUND) goes to the callback exactly once, one after the marker
\* never, then the callback is called once with no record, after all the
\* record callbacks, and the status returned is AEROSPIKE_OK.
C22_EveryRecordOnce ==
    ScanS5Setup /\ ~scan.aborted =>
        /\ \A n \in ScanNodes, k \in 1 .. MaxStreamLen : scan.delivered[n][k] <= Due(n, k)
        /\ scan.eos > 0 => scan.pc = "done"
        /\ scan.pc = "done" =>
               /\ \A n \in ScanNodes, k \in 1 .. MaxStreamLen :
                      scan.delivered[n][k] = Due(n, k)
               /\ scan.eos = 1
               /\ scan.status = AEROSPIKE_OK

\* the scan of S5 has returned: a record of node 1 was delivered, and node 2
\* sent a record after its marker
C22_Witness ==
    /\ ScanS5Setup
    /\ ~scan.aborted
    /\ scan.pc = "done"
    /\ scan.worker[1].stream = <<"rec", "rec", "last">>
    /\ scan.worker[2].stream = <<"rec", "notfound", "rec">>
    /\ scan.delivered[1][2] = 1
    /\ scan.delivered[2][3] = 0
    /\ scan.eos = 1


\* the threads of the scan that ended with a user abort
UserAborters ==
    {n \in ScanNodes : scan.worker[n].status = AEROSPIKE_ERR_CLIENT_ABORT}

\* the error a thread of the scan has to report
ErrorOf(t) == IF t = 0 THEN AEROSPIKE_ERR_CLIENT ELSE scan.worker[t].err

\* C23: during one scan at most one thread writes the shared err slot, the
\* one whose swap of error_mutex returned 0; a later failure of a worker or
\* of the thread pool does not overwrite it, and when the swap is won by a
\* user abort nothing is written.
C23_ErrWrittenOnce ==
    scan.n_nodes > 0 =>
        /\ Cardinality(scan.winners) <= 1
        /\ scan.writers \subseteq scan.winners
        /\ \A t \in scan.writers : scan.err = ErrorOf(t)
        /\ scan.winners \subseteq UserAborters => scan.writers = {} /\ scan.err = AEROSPIKE_OK

\* both workers have failed; worker 2 won the swap and wrote its error, and
\* the failure of worker 1 has not overwritten it
C23_Witness ==
    /\ scan.concurrent
    /\ scan.worker[1].status = AEROSPIKE_ERR_SERVER
    /\ scan.worker[2].status = AEROSPIKE_ERR_TIMEOUT
    /\ scan.worker[1].pc = "done"
    /\ scan.worker[2].pc = "done"
    /\ scan.writers = {2}
    /\ scan.err = AEROSPIKE_ERR_TIMEOUT


\* worker n loads error_mutex in this step
ChecksMutex(n) == scan.worker[n].pc = "check" /\ scan'.worker[n].pc # "check"

\* C24: cancellation of a scan is cooperative and between records.  A worker
\* that loads error_mutex after a record and finds it set ends its loop with
\* AEROSPIKE_ERR_SCAN_ABORTED, and goes on to its next message if it is not
\* set; so no worker starts more than one record callback once error_mutex
\* is set, and a record that was read has gone to the callback.
C24_AbortBetweenRecords ==
    /\ [](\A n \in ScanNodes : scan.after_flag[n] <= 1)
    /\ [](\A n \in ScanNodes :
             scan.callback /\ scan.worker[n].pc = "check" =>
                 scan.delivered[n][scan.worker[n].pos] = 1)
    /\ [][\A n \in ScanNodes :
             ChecksMutex(n) =>
                 IF scan.error_mutex # 0
                 THEN /\ scan'.worker[n].pc = "fas"
                      /\ scan'.worker[n].status = AEROSPIKE_ERR_SCAN_ABORTED
                 ELSE /\ scan'.worker[n].pc = "read"
                      /\ scan'.worker[n].pos = scan.worker[n].pos + 1]_vars

\* worker 2 has called the callback for one record after worker 1 set
\* error_mutex, and has ended with AEROSPIKE_ERR_SCAN_ABORTED, leaving a
\* record unread
C24_Witness ==
    /\ scan.concurrent
    /\ 1 \in scan.winners
    /\ scan.after_flag[2] = 1
    /\ scan.worker[2].status = AEROSPIKE_ERR_SCAN_ABORTED
    /\ scan.worker[2].pos < Len(scan.worker[2].stream)
    /\ scan.worker[2].stream[scan.worker[2].pos + 1] = "rec"


\* the scan of node n failed: it ended with an error that is neither the
\* user's abort nor the abort of a peer
NodeScanFailed(n) ==
    scan.worker[n].status \in {AEROSPIKE_ERR_SERVER, AEROSPIKE_ERR_TIMEOUT}

\* everything the scan held is released
ScanReleased ==
    /\ scan.nodes_rc = 0
    /\ \A n \in ScanNodes : scan.node_rc[n] = 0
    /\ ~scan.cmd

\* C25: the end-of-stream callback of a cluster-wide scan is made at most
\* once, only when all workers have completed and the node reservations and
\* the command buffer are released, and exactly when a callback was supplied
\* and the status, with AEROSPIKE_ERR_CLIENT_ABORT collapsed, is
\* AEROSPIKE_OK; never when the scan of some node failed, and never for a
\* background scan.
C25_EndCallback ==
    scan.entry \in {"foreach", "background"} =>
        /\ scan.eos <= 1
        /\ scan.eos > 0 =>
               /\ WorkersDone
               /\ ScanReleased
               /\ scan.entry # "background"
               /\ \A n \in ScanNodes : ~NodeScanFailed(n)
        /\ scan.pc = "done" =>
               (scan.eos = 1 <=> scan.callback /\ scan.status = AEROSPIKE_OK)


\* a scan entry point of the whole cluster was called when the cluster had
\* no node
ScanOfEmptyCluster ==
    /\ scan.pc # "idle"
    /\ scan.entry \in {"foreach", "background"}
    /\ scan.n_nodes = 0

\* C26: a scan started when the cluster has no nodes fails at once with
\* AEROSPIKE_ERR_SERVER: no node is reserved, no command is built, no worker
\* runs, the callback is never called, not even for the end of the stream,
\* and the node array is released.
C26_EmptyClusterFails ==
    ScanOfEmptyCluster =>
        /\ scan.pc = "done"
        /\ scan.status = AEROSPIKE_ERR_SERVER
        /\ scan.err = AEROSPIKE_ERR_SERVER
        /\ ScanReleased
        /\ \A n \in ScanNodes : scan.worker[n].pc = "none"
        /\ \A n \in ScanNodes, k \in 1 .. MaxStreamLen : scan.delivered[n][k] = 0
        /\ scan.eos = 0

\* aerospike_scan_foreach has returned from a scan of an empty cluster
C26_Witness ==
    /\ ScanOfEmptyCluster
    /\ scan.callback
    /\ scan.pc = "done"


\* C27: a user abort is success at the boundary of every scan entry point.
\* When the callback has returned false, aerospike_scan_node returns
\* AEROSPIKE_OK as aerospike_scan_foreach does, and no entry point returns
\* AEROSPIKE_ERR_CLIENT_ABORT.
C27_AbortIsSuccess ==
    scan.pc = "done" /\ scan.aborted =>
        /\ scan.status # AEROSPIKE_ERR_CLIENT_ABORT
        /\ scan.entry = "node" => scan.status = AEROSPIKE_OK


\* thread t calls cl_cluster_node_fd_get in this step
FdGetStep(t) == thr[t].pc = "has" /\ thr'[t].pc = "fd"

\* the descriptors pooled for node n
Pooled(q) == {q[i].fd : i \in 1 .. Len(q)}

\* C28: cl_cluster_node_fd_get never returns a pooled descriptor whose probe
\* reported it closed or in error.  A pooled descriptor the peer has closed
\* is closed and not put back, the node is not dunned for it, and the
\* checkout goes on with the pool (a connected descriptor next in the pool
\* is returned); one with an error is closed and not put back, the node is
\* dunned by 50 and -2 is returned; a connected one is returned and is no
\* longer in the pool.
C28_FdGetProbes ==
    [][\A t \in Threads :
          FdGetStep(t) =>
              LET cn == thr[t].cn
                  q == node[cn].conn_q
                  rv == thr'[t].fd
                  after == Pooled(node'[cn].conn_q)
              IN  /\ \A i \in 1 .. Len(q) : q[i].fd = rv => q[i].st = "CONNECTED"
                  /\ rv \notin after
                  /\ q # <<>> /\ q[1].st = "CONNECTED" => rv = q[1].fd
                  /\ q # <<>> /\ q[1].st = "CONNECTED_ERROR" =>
                         /\ rv = -2
                         /\ q[1].fd \in node'[cn].closed \ after
                         /\ node'[cn].dun_count = dun_count_add(node[cn].dun_count,
                                                                "DUN_RESTART_FD")
                  /\ q # <<>> /\ q[1].st = "CONNECTED_NOT" =>
                         /\ q[1].fd \in node'[cn].closed \ after
                         /\ Len(q) > 1 /\ q[2].st = "CONNECTED" =>
                                /\ rv = q[2].fd
                                /\ node'[cn].dun_count = node[cn].dun_count]_vars

\* a thread has been given -1 for a pool whose first descriptor the peer had
\* closed and whose second was connected
C28_Witness ==
    \E t \in Threads :
        /\ thr[t].pc = "fd"
        /\ thr[t].fd = -1
        /\ node[thr[t].cn].conn_q # <<>>
        /\ node[thr[t].cn].conn_q[1].st = "CONNECTED"

\* node n is out of the cluster after this step: its tend tick found it
\* dunned and removed it
RemovedAtTick(n) == n \notin Range(asc'.node_v)

\* C29: dunned is latching.  Once the dunned flag of a node is set it stays
\* set until the node's tend tick removes the node, whatever the
\* interleaving of the application threads' dun() with the info and
\* replicas callbacks, which test dunned and then call ok().
C29_DunnedLatches ==
    [][\A n \in NodeIds :
          node[n].MAGIC /\ node[n].dunned = 1 =>
              \/ node'[n].MAGIC /\ node'[n].dunned = 1
              \/ RemovedAtTick(n)]_vars


\* a valid entry of a replicas list: a namespace of at most 31 bytes and a
\* partition id in 0 .. N - 1
ValidEntry(e) ==
    Len(e) = 2 /\ Len(e[1]) <= 31 /\ 0 <= atoi(e[2]) /\ atoi(e[2]) < asc.n_partitions

\* cell c is named by a valid entry of the list for its direction in the
\* response the callback holds
Listed(c) == \E e \in Entries(c[3]) : ValidEntry(e) /\ e[1] = c[1] /\ atoi(e[2]) = c[2]

\* C30: when the replicas response of a node that is not dunned has been
\* processed, the cells that point to the node are exactly the cells named
\* by the valid entries of replicas-read (read cells) and replicas-write
\* (write cells), and a cell of another node that is not listed is as it
\* was; a cell has one owner or none at any time (table is a function of
\* the cell).
C30_ReplicasReplaceCells ==
    [][ReplicasEnds =>
          \A c \in Cells :
              /\ table'[c] = io.cn <=> Listed(c)
              /\ ~Listed(c) /\ table[c] # io.cn => table'[c] = table[c]]_vars

\* the node owns a cell and its response, being processed, lists another
C30_Witness ==
    /\ io.h = "replicas" /\ io.rv = 0
    /\ \E c \in Cells : table[c] = io.cn /\ ~Listed(c)
    /\ \E c \in Cells : table[c] # io.cn /\ Listed(c)


\* a replicas request to node n is launched in this step
ReplicasLaunched(n) == inflight'[ReplicasReq(n)] = inflight[ReplicasReq(n)] + 1

\* the partition generation of the info response the callback holds differs
\* from the one stored for the node
GenerationDiffers ==
    /\ Field("partition-generation") # ""
    /\ ToUint32(atoi(Field("partition-generation"))) # node[io.cn].partition_generation

InfoFails(n) ==
    \/ InfoCbEnds /\ io.cn = n /\ io.rv # 0
    \/ /\ io.h = "idle" /\ io'.h = "idle"
       /\ node[n].MAGIC /\ node'[n].MAGIC
       /\ node'[n].dun_count # node[n].dun_count

\* a replicas fetch of node n fails in this step
ReplicasFails(n) == io.h = "replicas" /\ io'.h = "idle" /\ io.cn = n /\ io.rv # 0

\* a request to node n succeeds in this step
ProbeSucceeds(n) ==
    /\ io.h \in {"infocb", "replicas"} /\ io'.h = "idle" /\ io.cn = n /\ io.rv = 0

\* the timer of node n fires in this step and finds the node dunned
DunnedTick(n) ==
    /\ io.h = "idle" /\ io'.h = "idle"
    /\ node[n].MAGIC /\ node[n].dunned = 1 /\ node[n].timer_event_registered
    /\ ~(node'[n].MAGIC /\ node'[n].timer_event_registered)

\* C32: info failures weigh 300: with no success in between the node is not
\* dunned after the first and the second and is dunned at the third.  One
\* failed replicas fetch, or one timer tick that finds no address, duns the
\* node at once.  A success sets the accumulator to 0.  A dunned node stays
\* dunned until its next timer tick, which takes it out of the node list
\* and of the partition table.
C32_DunWeights ==
    /\ [](\A n \in NodeIds :
             node[n].MAGIC =>
                 /\ node[n].dun_count \in {0, 300, 600} \/ node[n].dun_count > 800
                 /\ node[n].dunned = 1 <=> node[n].dun_count > 800
                 /\ node[n].dunned = 0 =>
                        node_timer_fn([World EXCEPT !.node[n].sockaddr_in_v = <<>>],
                                      n, 0, 0).node[n].dunned = 1)
    /\ [][\A n \in NodeIds :
             /\ InfoFails(n) =>
                    /\ node[n].dun_count = 0 => node'[n].dun_count = 300
                    /\ node[n].dun_count = 300 => node'[n].dun_count = 600
                    /\ node[n].dun_count = 600 => node'[n].dunned = 1
             /\ ReplicasFails(n) => node'[n].dunned = 1
             /\ ProbeSucceeds(n) => node'[n].dun_count = 0 /\ node'[n].dunned = 0
             /\ node[n].MAGIC /\ node[n].dunned = 1 /\ InList(n) =>
                    \/ node'[n].MAGIC /\ node'[n].dunned = 1
                    \/ DunnedTick(n)
             /\ DunnedTick(n) =>
                    /\ n \notin Range(asc'.node_v)
                    /\ \A c \in Cells : table'[c] # n]_vars

\* the node has failed two info probes in a row and is in the list
C32_Witness ==
    \E n \in NodeIds :
        /\ node[n].MAGIC /\ node[n].dun_count = 600 /\ node[n].dunned = 0 /\ InList(n)
        /\ CellsOf(n) # {}


\* address sa is in the address list of a node of the cluster list
AddrInList(sa) ==
    \E j \in 1 .. Len(asc.node_v) : Contains(node[asc.node_v[j]].sockaddr_in_v, sa)

\* the nodes of the list of world W that have this name
Named(W, name) == {n \in Range(W.asc.node_v) : W.node[n].name = name}

SeedAddr(i) == cl_lookup_immediate(asc.host_str_v[i], asc.host_port_v[i])

\* the world after a tick of the cluster timer in which every request is sent
TenderTick == cluster_timer_fn(World, [i \in 1 .. Len(asc.host_str_v) |-> 0], 0)

\* C34: the tender probes the seed hosts only when the node list is empty.
\* A tick of the cluster timer with an empty list submits every seed host
\* to the new-address path, and one with a non-empty list launches nothing;
\* no seed-host entry is ever removed; and when the list has become empty
\* and the seeds answer, the list becomes non-empty again.
C34_TenderSelfHeals ==
    /\ [](LET W == TenderTick
          IN  /\ asc.node_v # <<>> => W.inflight = inflight /\ W.dns = dns
              /\ asc.node_v = <<>> /\ ~asc.shutdown =>
                     \A i \in 1 .. Len(asc.host_str_v) :
                         W.inflight[PingReq(SeedAddr(i), asc.n_partitions = 0)]
                             = inflight[PingReq(SeedAddr(i), asc.n_partitions = 0)] + 1)
    /\ [][/\ \A r \in Requests :
                 r.kind = "ping" /\ inflight'[r] > inflight[r] => asc.node_v = <<>>
          /\ Len(asc'.host_str_v) >= Len(asc.host_str_v)
          /\ \A i \in 1 .. Len(asc.host_str_v) :
                 /\ asc'.host_str_v[i] = asc.host_str_v[i]
                 /\ asc'.host_port_v[i] = asc.host_port_v[i]]_vars
    /\ (asc.host_str_v # <<>> /\ asc.node_v = <<>>) ~> (asc.node_v # <<>>)

\* the cluster has collapsed: it had a partition count from a node, and its
\* list is empty with both seed hosts known
C34_Witness ==
    asc.node_v = <<>> /\ asc.n_partitions # 0 /\ Len(asc.host_str_v) = 2


\* C35: when the callback of a successful probe ends with a non-empty node
\* list, every request that was in the request queue has been popped and
\* handed to the restart hook once, in the order of the queue; the callback
\* of a failed probe (an error, or shutdown set) leaves the request queue,
\* the node list and the partition count as they were.
C35_ParkedRequestsRestart ==
    /\ [](\A sa \in Addrs, p \in BOOLEAN :
             inflight[PingReq(sa, p)] > 0 =>
                 LET values == PingResponse("A", IF p THEN "2" ELSE "")
                     W == cluster_ping_node_fn(World, sa, 0, values, 0)
                     Wf == cluster_ping_node_fn(World, sa, -1, <<>>, 0)
                     Ws == cluster_ping_node_fn([World EXCEPT !.asc.shutdown = TRUE],
                                                sa, 0, values, 0)
                 IN  /\ W.asc.node_v # <<>> /\ ~asc.shutdown =>
                            /\ W.asc.request_q = <<>>
                            /\ W.asc.restarted = asc.restarted \o asc.request_q
                     /\ Wf.asc.request_q = asc.request_q /\ Wf.asc.restarted = asc.restarted
                     /\ Wf.asc.node_v = asc.node_v /\ Wf.asc.n_partitions = asc.n_partitions
                     /\ Ws.asc.request_q = asc.request_q /\ Ws.asc.restarted = asc.restarted
                     /\ Ws.asc.node_v = asc.node_v /\ Ws.asc.n_partitions = asc.n_partitions)
    /\ [](\A i, j \in 1 .. Len(asc.restarted \o asc.request_q) :
             i < j => (asc.restarted \o asc.request_q)[i] < (asc.restarted \o asc.request_q)[j])
    /\ [][asc'.restarted # asc.restarted =>
             /\ asc'.restarted = asc.restarted \o asc.request_q
             /\ asc'.request_q = <<>>
             /\ asc'.node_v # <<>>]_vars

\* two requests are parked and a probe of the seed is in flight
C35_Witness ==
    /\ Len(asc.request_q) = 2
    /\ \E sa \in Addrs, p \in BOOLEAN : inflight[PingReq(sa, p)] > 0


\* a scan of the cluster's nodes one after the other has been called
SerialScan ==
    scan.pc # "idle" /\ scan.entry # "node" /\ ~scan.concurrent /\ scan.n_nodes > 0

\* the scan of node n has ended and returned this status
Returned(n, status) == scan.worker[n].pc = "done" /\ scan.worker[n].status = status

\* C36: in a non-concurrent scan the nodes are scanned one at a time in the
\* order of the node array.  After the first node whose scan returns a
\* status other than AEROSPIKE_OK, a failure or a user abort, no later node
\* is contacted and no record callback is made for it; a node whose scan
\* ends with LAST or NOT_FOUND is followed by the next node.
C36_SerialScanOrder ==
    SerialScan =>
        /\ Cardinality({n \in ScanNodes : scan.worker[n].pc \notin {"none", "done"}}) <= 1
        /\ \A n \in ScanNodes :
               /\ scan.worker[n].pc # "none" =>
                      \A m \in 1 .. n - 1 : Returned(m, AEROSPIKE_OK)
               /\ scan.worker[n].pc = "done" /\ scan.worker[n].status # AEROSPIKE_OK =>
                      \A m \in ScanNodes :
                          m > n => /\ scan.worker[m].pc = "none"
                                   /\ \A k \in 1 .. MaxStreamLen : scan.delivered[m][k] = 0
               /\ n <= scan.n_nodes /\ (\A m \in 1 .. n - 1 : Returned(m, AEROSPIKE_OK)) =>
                      scan.worker[n].pc # "none"

\* the first node has ended with NOT_FOUND after a record and the second
\* node's first record has gone to the callback
C36_Witness ==
    /\ SerialScan
    /\ scan.worker[1].stream = <<"rec", "notfound">>
    /\ Returned(1, AEROSPIKE_OK)
    /\ scan.delivered[2][1] = 1


\* a scan of the whole cluster has returned
ClusterScanReturned ==
    scan.pc = "done" /\ scan.entry \in {"foreach", "background"} /\ scan.n_nodes > 0

\* C37: when a scan of the whole cluster returns, the status returned and
\* the shared err agree: the status is not AEROSPIKE_OK exactly when err
\* holds a failure, and then it is the code in err, the code of the failure
\* that won error_mutex, and not the AEROSPIKE_ERR_SCAN_ABORTED of a worker
\* that only saw the flag; for every interleaving of the workers and every
\* order of their completions.
C37_StatusAgreesWithErr ==
    ClusterScanReturned =>
        /\ scan.status # AEROSPIKE_OK <=> scan.err # AEROSPIKE_OK
        /\ scan.status # AEROSPIKE_OK =>
               /\ scan.status = scan.err
               /\ \E t \in scan.winners : scan.status = ErrorOf(t)
        /\ scan.status # AEROSPIKE_ERR_SCAN_ABORTED


\* the workers handed to the thread pool
Submitted == {n \in ScanNodes : scan.worker[n].pc # "none"}

\* C38: in a concurrent scan the executor releases no node, does not free
\* the command buffer or destroy the completion queue and does not return
\* before every worker it handed to the thread pool has pushed its
\* completion: it pops as many completions as workers were handed over, also
\* when as_thread_pool_queue_task fails part-way, and then releases every
\* node, those never handed over too.  No worker is at work after the
\* release.
C38_WaitsForSubmittedWorkers ==
    scan.concurrent /\ scan.entry \in {"foreach", "background"} /\ scan.n_nodes > 0 =>
        /\ \A n \in Submitted :
               scan.worker[n].pc # "done" =>
                   /\ scan.cmd
                   /\ scan.nodes_rc > 0
                   /\ scan.node_rc[n] > 0
                   /\ scan.pc \in {"queue", "wait"}
        /\ scan.pc \in {"eos", "done"} =>
               /\ \A n \in Submitted : scan.worker[n].pc = "done"
               /\ scan.popped = Cardinality(Submitted)
               /\ scan.n_wait_nodes = Cardinality(Submitted)
               /\ \A n \in ScanNodes : scan.node_rc[n] = 0
               /\ ~scan.cmd /\ scan.nodes_rc = 0
        /\ scan.popped <= Cardinality({n \in Submitted : scan.worker[n].pc = "done"})

\* the second task could not be queued: the scan has returned after the one
\* worker that ran, on a stream of two records, had pushed its completion
C38_Witness ==
    /\ scan.concurrent /\ scan.n_nodes = 2 /\ scan.pc = "done"
    /\ scan.worker[1].pc = "done" /\ scan.worker[2].pc = "none"
    /\ scan.worker[1].stream = <<"rec", "rec", "last">>
    /\ scan.popped = 1


\* C39: cluster destroy terminates: once a thread is in the loop of
\* ev2citrusleaf_cluster_destroy that pumps the event loop, the loop ends and
\* the call returns, the nodes' timers being armed while it pumps.
C39_DestroyTerminates ==
    (\E t \in Threads : thr[t].pc = "destroy_loop") ~>
        (\E t \in Threads : thr[t].pc = "destroyed")

\* a thread is in the loop of destroy, a request is outstanding and a node's
\* timer is armed
C39_Witness ==
    /\ \E t \in Threads : thr[t].pc = "destroy_loop"
    /\ asc.infos_in_progress > 0
    /\ \E cn \in NodeIds : node[cn].MAGIC /\ node[cn].timer_event_registered


\* the info requests handed to the event loop whose callback has not run
RECURSIVE InflightSum(_)
InflightSum(R) ==
    IF R = {} THEN 0
    ELSE LET r == CHOOSE x \in R : TRUE IN inflight[r] + InflightSum(R \ {r})

InfosLaunched == InflightSum(Requests)

\* C40: infos_in_progress is never negative and, when no launch and no
\* callback is mid-way, is the number of info requests launched whose
\* callback has not yet run, also when an application thread launches a
\* probe while the dispatcher runs callbacks.
C40_CounterCountsRequests ==
    /\ asc.infos_in_progress >= 0
    /\ (io.h = "idle" /\ \A t \in Threads : thr[t].pc # "tend_incr") =>
           asc.infos_in_progress = InfosLaunched

\* an application thread has handed its probe to the event loop and not yet
\* counted it, beside a probe of the dispatcher's tender
C40_Witness ==
    /\ \E t \in Threads : thr[t].pc = "tend_incr"
    /\ asc.infos_in_progress = 1
    /\ InfosLaunched = 2
====
